---- MODULE Spec2Model ----
(***************************************************************************)
(* A model of the agent-desk core server (src-tauri/src): the permission   *)
(* gate (permission.rs, server.rs api_permission_request / _respond), the  *)
(* hook dedup cache (server.rs api_hook), the event store (events.rs,      *)
(* server.rs api_signal), the session tracker (session.rs) and the         *)
(* session/process reconciliation (server.rs scan_and_merge).              *)
(*                                                                         *)
(* The server runs on a multi-threaded tokio runtime (lib.rs:43), so the   *)
(* handlers interleave at the granularity of their lock regions; every     *)
(* action below is one lock region (or one lock-free file operation) of    *)
(* one handler.  Time is in milliseconds.  Option<T> is a sequence of      *)
(* length 0 (None) or 1 (Some).  Strings that are normalised by the code   *)
(* (working directories) are sequences of one-character strings.           *)
(***************************************************************************)
EXTENDS Integers, Sequences, FiniteSets, TLC

VARIABLES
    now,          \* wall clock (SystemTime::now), milliseconds
    sessions,     \* SessionTracker.sessions: session_id -> SessionInfo
    sse,          \* frames handed to SSEBroadcaster::broadcast, in order
    requests,     \* PermissionStore.requests: id -> PermissionRequest
    senders,      \* PermissionStore.senders: ids whose oneshot Sender is stored
    chan,         \* the oneshot channel of every request id
    perm,         \* the api_permission_request call of every request id
    resp,         \* the api_permission_respond calls
    dedup_cache,  \* AppState.dedup_cache: "sid:event" -> timestamp
    hook,         \* the api_hook calls
    file,         \* the lines of the JSONL event log, parsed
    fmeta,        \* fs::metadata of the event log: None or Some([mtime, size])
    cache,        \* EventStore.cache: [events, last_mtime, last_size]
    sig,          \* the api_signal calls
    rdr,          \* the get_events calls
    chg,          \* the kind of the store's latest change
    processes,    \* ProcessRegistry's cached scan
    merged,       \* the list scan_and_merge returned: None before the call
    status,       \* the object compute_state returned: None before the call
    snapshot,     \* the sessions file read at startup
    started,      \* SessionTracker::new has run
    dirty,        \* SessionTracker.dirty
    snapfile,     \* the sessions file as last written by flush_if_dirty
    fl,           \* the flush_if_dirty calls
    mutations,    \* how many times the tracker stored dirty = true (startup included)
    writes,       \* how many times flush_if_dirty wrote the file
    flushes,      \* how many flush_if_dirty calls have started
    seen,         \* the value of mutations at the latest flush_if_dirty call
    sub,          \* the /api/stream subscribers: their broadcast::Receiver
    hp,           \* the agent-desk-hook processes
    backlog,      \* connections waiting in the hook daemon's listener
    serving,      \* the connection whose POST the hook daemon is waiting on
    posts,        \* the hook POSTs the server has handled, in order
    arg,          \* the arguments of the call a specification of one function follows
    ret,          \* what that call returned: None before the call
    boot,         \* lib.rs run(): its position, what it found, and the side effects it has had
    fsys,         \* the files run() may write before the server starts: [config, settings]
    ports,        \* who listens on the server port and on the daemon port (port + 1)
    dprocs,       \* the live agent-desk-hook --daemon processes: pid -> [origin, st]
    hwnd,         \* the window find_terminal_by_title is at: None before GetTopWindow
    cd            \* the countdown task of every request id

vars == <<now, sessions, sse, requests, senders, chan, perm, resp, dedup_cache, hook,
          file, fmeta, cache, sig, rdr, chg, processes, merged, status, snapshot,
          started,
          dirty, snapfile, fl, mutations, writes, flushes, seen, sub, hp, backlog,
          serving, posts,
          arg, ret,
          boot, fsys, ports, dprocs,
          hwnd,
          cd>>

permVars == <<requests, senders, chan, perm, resp>>
hookVars == <<dedup_cache, hook>>
evVars == <<file, fmeta, cache, sig, rdr, chg>>
mergeVars == <<processes, merged, status>>
startVars == <<snapshot, started>>
\* the dirty flag and the sessions file are followed in the tracker's own
\* specification only
flushVars == <<dirty, snapfile, fl, mutations, writes, flushes, seen>>
strmVars == <<sub>>
relayVars == <<hp, backlog, serving, posts>>
fnVars == <<arg, ret>>
bootVars == <<boot, fsys, ports, dprocs>>
scanVars == <<hwnd>>
cdVars == <<cd>>
notPermVars == <<hookVars, evVars, mergeVars, startVars, flushVars, strmVars, relayVars, fnVars, bootVars, scanVars, cdVars>>
notHookVars == <<permVars, evVars, mergeVars, startVars, flushVars, strmVars, relayVars, fnVars, bootVars, scanVars, cdVars>>
notEvVars == <<permVars, hookVars, mergeVars, startVars, flushVars, strmVars, relayVars, fnVars, bootVars, scanVars, cdVars>>
notMergeVars == <<permVars, hookVars, evVars, startVars, flushVars, strmVars, relayVars, fnVars, bootVars, scanVars, cdVars>>
notStartVars == <<permVars, hookVars, evVars, mergeVars, flushVars, strmVars, relayVars, fnVars, bootVars, scanVars, cdVars>>
notFlushVars == <<permVars, hookVars, evVars, mergeVars, startVars, strmVars, relayVars, fnVars, bootVars, scanVars, cdVars>>
notStrmVars == <<permVars, hookVars, evVars, mergeVars, startVars, flushVars, relayVars, fnVars, bootVars, scanVars, cdVars>>
notRelayVars == <<permVars, hookVars, evVars, mergeVars, startVars, flushVars, strmVars, fnVars, bootVars, scanVars, cdVars>>
notFnVars == <<permVars, hookVars, evVars, mergeVars, startVars, flushVars, strmVars, relayVars, bootVars, scanVars, cdVars>>
notBootVars == <<permVars, hookVars, evVars, mergeVars, startVars, flushVars, strmVars, relayVars, fnVars, scanVars, cdVars>>
notScanVars == <<permVars, hookVars, evVars, mergeVars, startVars, flushVars, strmVars, relayVars, fnVars, bootVars, cdVars>>
notCdVars == <<permVars, hookVars, evVars, mergeVars, startVars, flushVars, strmVars, relayVars, fnVars, bootVars, scanVars>>
\* what the permission handler and its countdown task leave alone
notGateVars ==
    <<hookVars, evVars, mergeVars, startVars, flushVars, strmVars, relayVars, fnVars,
      bootVars, scanVars>>

None == <<>>
Some(x) == <<x>>

(***************************************************************************)
(* protocol.rs                                                             *)
(***************************************************************************)
SessionStatus == {"Idle", "Active", "Waiting", "Ended", "Stopped", "Unknown"}
PermissionDecisionKind == {"Allow", "Deny", "AlwaysAllow"}

to_behavior_approve_all(d) == "approve"

\* PermissionDecisionKind::to_behavior
to_behavior(d) == IF d \in {"Allow", "AlwaysAllow"} THEN "approve" ELSE "deny"

(***************************************************************************)
(* session.rs: SessionInfo carries status, cwd, updated_at, last_message   *)
(* and the two notification fields (model, started_at, agent_pid and       *)
(* parent_session_id are written but never read by the code modelled).     *)
(***************************************************************************)
NoUpdate ==
    [status |-> None, cwd |-> None, last_message |-> None,
     notification_type |-> None, notification_message |-> None]

FreshInfo(st, cwd, t) ==
    [status |-> st, cwd |-> cwd, updated_at |-> t, last_message |-> None,
     notification_type |-> None, notification_message |-> None]

Opt(o, old) == IF o = None THEN old ELSE o[1]

\* SessionTracker::update
SessionTracker_update(ss, sid, u, t) ==
    LET base == IF sid \in DOMAIN ss THEN ss[sid] ELSE FreshInfo("Unknown", <<>>, t)
        e == [status |-> Opt(u.status, base.status),
              cwd |-> Opt(u.cwd, base.cwd),
              updated_at |-> t,
              last_message |-> IF u.last_message = None THEN base.last_message
                               ELSE u.last_message,
              notification_type |-> IF u.notification_type = None
                                    THEN base.notification_type
                                    ELSE u.notification_type,
              notification_message |-> IF u.notification_message = None
                                       THEN base.notification_message
                                       ELSE u.notification_message]
    IN  [x \in (DOMAIN ss) \cup {sid} |-> IF x = sid THEN e ELSE ss[x]]

\* SessionTracker::register
SessionTracker_register(ss, sid, cwd, t) ==
    [x \in (DOMAIN ss) \cup {sid} |-> IF x = sid THEN FreshInfo("Idle", cwd, t) ELSE ss[x]]

(***************************************************************************)
(* The permission gate.                                                    *)
(***************************************************************************)
MaxReq == 1                  \* api_permission_request calls (fresh uuids)
MaxResp == 2                 \* api_permission_respond calls
PermissionTimeoutMs == 20000 \* config.island.permission_timeout_secs, scaled
PermTickMs == 10000          \* granularity of the time a handler has waited

ReqIds == 1..MaxReq
RespIds == 1..MaxResp
BogusId == 0                 \* an id that no request ever had

PermSessionIds == {"", "S1"}
Suggestions == {<<>>, <<"rule">>}   \* permission_suggestions (a JSON array)

EmptyArray == <<>>
NoResponse == [behavior |-> "", updatedPermissions |-> EmptyArray]

DenyResponse_approve == [behavior |-> "approve", updatedPermissions |-> EmptyArray]

\* api_permission_request, the timeout / channel-closed arm
DenyResponse == [behavior |-> "deny", updatedPermissions |-> EmptyArray]

updated_permissions_always(d, sugg) == sugg

\* api_permission_request, the Ok(Ok(d)) arm: updated_permissions
updated_permissions(d, sugg) == IF d = "AlwaysAllow" THEN sugg ELSE EmptyArray

\* api_permission_request, the Ok(Ok(d)) arm: the response body
DecisionResponse(d, sugg) ==
    [behavior |-> to_behavior(d), updatedPermissions |-> updated_permissions(d, sugg)]

MapRemove(m, k) == [x \in (DOMAIN m) \ {k} |-> m[x]]
MapPut(m, k, v) == [x \in (DOMAIN m) \cup {k} |-> IF x = k THEN v ELSE m[x]]

remove_requests_keep(reqs, id) == reqs

\* PermissionStore::remove, first statement
remove_requests(reqs, id) == MapRemove(reqs, id)

remove_senders_keep(snd, id) == snd

\* PermissionStore::remove, second statement
remove_senders(snd, id) == snd \ {id}

CountdownSleepMs == 10000    \* the countdown task's sleep

NoCountdown == [pc |-> "none", remaining |-> 0, due |-> 0, aborted |-> FALSE]

InitCdVars == cd = [i \in ReqIds |-> NoCountdown]

\* u64::saturating_sub
saturating_sub(a, b) == IF a >= b THEN a - b ELSE 0

\* JoinHandle::abort: a task that is suspended at an await is dropped there;
\* a task that is being polled on another worker thread runs on to its next
\* await and is dropped there
abort(c) ==
    IF c.pc = "sleep" THEN [c EXCEPT !.pc = "ended", !.aborted = TRUE]
    ELSE [c EXCEPT !.aborted = TRUE]

InitPermVars ==
    /\ requests = << >>
    /\ senders = {}
    /\ chan = [i \in ReqIds |-> [st |-> "none", val |-> "Deny"]]
    /\ perm = [i \in ReqIds |->
                 [pc |-> "start", session_id |-> "", sugg |-> EmptyArray,
                  waited |-> 0, outcome |-> "none", decision |-> "Deny",
                  response |-> NoResponse]]
    /\ resp = [r \in RespIds |->
                 [pc |-> "idle", id |-> BogusId, decision |-> "Deny",
                  sid |-> None, ok |-> FALSE]]

\* api_permission_request up to PermissionStore::register's requests.insert
PermRequest(id, sid, sugg) ==
    /\ perm[id].pc = "start"
    /\ \A j \in ReqIds : j < id => perm[j].pc # "start"
    /\ requests' = MapPut(requests, id,
                     [id |-> id, session_id |-> sid, permission_suggestions |-> sugg,
                      timeout_secs |-> PermissionTimeoutMs])
    /\ chan' = [chan EXCEPT ![id] = [st |-> "open", val |-> "Deny"]]
    /\ perm' = [perm EXCEPT ![id] = [@ EXCEPT !.pc = "reg1", !.session_id = sid,
                                              !.sugg = sugg]]
    /\ UNCHANGED <<now, sessions, sse, senders, resp, notPermVars>>

\* PermissionStore::register, senders.insert
PermRegisterSender(id) ==
    /\ perm[id].pc = "reg1"
    /\ senders' = senders \cup {id}
    /\ perm' = [perm EXCEPT ![id].pc = "reg2"]
    /\ UNCHANGED <<now, sessions, sse, requests, chan, resp, notPermVars>>

\* api_permission_request: broadcast permission_request, spawn the countdown,
\* start the long poll
PermAnnounce(id) ==
    /\ perm[id].pc = "reg2"
    /\ sse' = Append(sse, [type |-> "permission_request", id |-> id,
                           session_id |-> perm[id].session_id, event |-> "",
                           decision |-> ""])
    /\ perm' = [perm EXCEPT ![id].pc = "wait"]
    /\ cd' = [cd EXCEPT ![id] = [pc |-> "sleep", remaining |-> PermissionTimeoutMs,
                                 due |-> CountdownSleepMs, aborted |-> FALSE]]
    /\ UNCHANGED <<now, sessions, requests, senders, chan, resp, notGateVars>>

\* time passes while the handler is suspended in tokio::time::timeout
PermTick(id) ==
    /\ perm[id].pc = "wait"
    /\ perm[id].waited < PermissionTimeoutMs
    /\ perm' = [perm EXCEPT ![id].waited = @ + PermTickMs]
    /\ UNCHANGED <<now, sessions, sse, requests, senders, chan, resp, notPermVars>>

\* the long poll resolves to Ok(Ok(d)): Timeout polls the receiver first;
\* countdown_handle.abort()
PermReceive(id) ==
    /\ perm[id].pc = "wait"
    /\ chan[id].st = "full"
    /\ chan' = [chan EXCEPT ![id].st = "taken"]
    /\ perm' = [perm EXCEPT ![id] =
                  [@ EXCEPT !.pc = "done", !.outcome = "decided",
                            !.decision = chan[id].val,
                            !.response = DecisionResponse(chan[id].val, perm[id].sugg)]]
    /\ cd' = [cd EXCEPT ![id] = abort(@)]
    /\ UNCHANGED <<now, sessions, sse, requests, senders, resp, notGateVars>>

\* the long poll resolves to Err(Elapsed): the receiver was pending and the
\* deadline has passed; countdown_handle.abort()
PermElapsed(id) ==
    /\ perm[id].pc = "wait"
    /\ chan[id].st = "open"
    /\ perm[id].waited >= PermissionTimeoutMs
    /\ perm' = [perm EXCEPT ![id] = [@ EXCEPT !.pc = "elapsed", !.outcome = "timeout"]]
    /\ cd' = [cd EXCEPT ![id] = abort(@)]
    /\ UNCHANGED <<now, sessions, sse, requests, senders, chan, resp, notGateVars>>

\* the Timeout future, and the Receiver it owns, is dropped
PermDropRx(id) ==
    /\ perm[id].pc = "elapsed"
    /\ chan' = [chan EXCEPT ![id].st = IF @ = "full" THEN "lost" ELSE "closed"]
    /\ perm' = [perm EXCEPT ![id].pc = "cleanup1"]
    /\ UNCHANGED <<now, sessions, sse, requests, senders, resp, notPermVars>>

\* PermissionStore::remove, requests.remove
PermRemoveRequest(id) ==
    /\ perm[id].pc = "cleanup1"
    /\ requests' = remove_requests(requests, id)
    /\ perm' = [perm EXCEPT ![id].pc = "cleanup2"]
    /\ UNCHANGED <<now, sessions, sse, senders, chan, resp, notPermVars>>

\* PermissionStore::remove, senders.remove; the handler returns "deny"
PermRemoveSender(id) ==
    /\ perm[id].pc = "cleanup2"
    /\ senders' = remove_senders(senders, id)
    /\ perm' = [perm EXCEPT ![id] = [@ EXCEPT !.pc = "done", !.response = DenyResponse]]
    /\ UNCHANGED <<now, sessions, sse, requests, chan, resp, notPermVars>>

\* the countdown task: tokio::time::sleep(10 s) has elapsed and a worker
\* polls the task
CountdownWake(id) ==
    /\ cd[id].pc = "sleep"
    /\ perm[id].waited >= cd[id].due
    /\ cd' = [cd EXCEPT ![id].pc = "woken"]
    /\ UNCHANGED <<now, sessions, sse, requests, senders, chan, perm, resp, notGateVars>>

\* the countdown task: remaining.saturating_sub(10), the permission_countdown
\* frame, and the break or the next sleep
CountdownBroadcast(id) ==
    LET remaining == saturating_sub(cd[id].remaining, CountdownSleepMs)
    IN  /\ cd[id].pc = "woken"
        /\ sse' = Append(sse, [type |-> "permission_countdown", id |-> id,
                               remaining |-> remaining, total |-> PermissionTimeoutMs])
        /\ cd' = [cd EXCEPT ![id] =
                    [@ EXCEPT !.remaining = remaining,
                              !.due = @ + CountdownSleepMs,
                              !.pc = IF remaining = 0 \/ cd[id].aborted
                                     THEN "ended" ELSE "sleep"]]
        /\ UNCHANGED <<now, sessions, requests, senders, chan, perm, resp, notGateVars>>

respond_status_always_active(d) == "Active"

\* api_permission_respond: new_status
respond_status(d) == IF d \in {"Allow", "AlwaysAllow"} THEN "Active" ELSE "Waiting"

\* api_permission_respond: the id is one the UI can have seen (in the pending
\* list or in a permission_request frame) or one that never existed; the
\* handler first looks the request's session_id up in get_pending()
RespLookup(r, id, d) ==
    /\ resp[r].pc = "idle"
    /\ \A q \in RespIds : q < r => resp[q].pc # "idle"
    /\ id = BogusId \/ (id \in ReqIds /\ perm[id].pc # "start")
    /\ resp' = [resp EXCEPT ![r] =
                  [pc |-> "looked", id |-> id, decision |-> d,
                   sid |-> IF id \in DOMAIN requests
                           THEN Some(requests[id].session_id) ELSE None,
                   ok |-> FALSE]]
    /\ UNCHANGED <<now, sessions, sse, requests, senders, chan, perm, notPermVars>>

\* PermissionStore::respond, requests.remove
RespRemoveRequest(r) ==
    /\ resp[r].pc = "looked"
    /\ requests' = MapRemove(requests, resp[r].id)
    /\ resp' = [resp EXCEPT ![r].pc = "removed"]
    /\ UNCHANGED <<now, sessions, sse, senders, chan, perm, notPermVars>>

\* PermissionStore::respond, senders.remove and tx.send: send succeeds iff
\* the Receiver has not been dropped
RespSend(r) ==
    LET id == resp[r].id
        has == id \in senders
        sent == has /\ chan[id].st = "open"
    IN  /\ resp[r].pc = "removed"
        /\ senders' = senders \ {id}
        /\ chan' = IF sent
                   THEN [chan EXCEPT ![id] = [st |-> "full", val |-> resp[r].decision]]
                   ELSE chan
        /\ resp' = [resp EXCEPT ![r] = [@ EXCEPT !.pc = "sent", !.ok = sent]]
        /\ UNCHANGED <<now, sessions, sse, requests, perm, notPermVars>>

\* api_permission_respond after respond(): session update and activity frame
RespFinish(r) ==
    LET act == resp[r].ok /\ resp[r].sid # None
        sid == resp[r].sid[1]
    IN  /\ resp[r].pc = "sent"
        /\ sessions' = IF act
                       THEN SessionTracker_update(sessions, sid,
                              [NoUpdate EXCEPT
                                 !.status = Some(respond_status(resp[r].decision)),
                                 !.notification_type = Some(""),
                                 !.notification_message = Some("")], now)
                       ELSE sessions
        /\ sse' = IF act
                  THEN Append(sse, [type |-> "activity", id |-> resp[r].id,
                                    session_id |-> sid, event |-> "permission_resolved",
                                    decision |-> resp[r].decision])
                  ELSE sse
        /\ resp' = [resp EXCEPT ![r].pc = "done"]
        /\ UNCHANGED <<now, requests, senders, chan, perm, notPermVars>>

(***************************************************************************)
(* /api/hook and the dedup cache.                                          *)
(***************************************************************************)
MaxHookCalls == 2            \* api_hook calls
HookTickMs == 250            \* granularity of the clock
MaxShortTicks == 2           \* the clock is sampled at a * HookTickMs, a up to this,
                             \*   and again one sweep age later
MaxStallMs == 250            \* longest a call waits for the dedup write lock
DedupWindowMs == 500         \* api_hook: now - last < 0.5
DedupSweepAgeMs == 5000      \* run_server dedup sweep: now - 5.0

HookCallIds == 1..MaxHookCalls
HookSessionIds == {"", "S1"}
HookEvents == {"UserPrompt", "Stop"}   \* HookQuery.event, when present
HookTimes ==
    {a * HookTickMs + b * DedupSweepAgeMs : a \in 0..MaxShortTicks, b \in {0, 1}}
HookCwd == <<"C", ":", "/", "p">>

\* impl Display for HookEvent
HookEventName(ev) ==
    CASE ev = "UserPrompt" -> "user_prompt"
      [] ev = "PreTool" -> "pre_tool"
      [] ev = "Stop" -> "stop"
      [] ev = "Notification" -> "notification"
      [] ev = "SessionStart" -> "session_start"
      [] ev = "SessionEnd" -> "session_end"
      [] ev = "PermissionRequest" -> "permission_request"
      [] OTHER -> "unknown"

\* api_hook: dedup_key
dedup_key(sid, ev) == sid \o ":" \o HookEventName(ev)

dedup_hit_same_instant(t, last) == t - last < 1

\* api_hook: now - last < 0.5
dedup_hit(t, last) == t - last < DedupWindowMs

sweep_retain_newer_than_now(ts, t) == ts > t

\* run_server dedup sweep: cache.retain(|_, ts| *ts > cutoff)
sweep_retain(ts, t) == ts > t - DedupSweepAgeMs

NoResult == [ok |-> FALSE, dedup |-> FALSE]

InitHookVars ==
    /\ dedup_cache = << >>
    /\ hook = [c \in HookCallIds |->
                 [pc |-> "idle", sid |-> "", ev |-> None, at |-> 0, result |-> NoResult]]

\* api_hook: decode, and read the clock when the call has an event and a
\* session id
HookEnter(c, sid, ev) ==
    /\ hook[c].pc = "idle"
    /\ \A b \in HookCallIds : b < c => hook[b].pc # "idle"
    /\ hook' = [hook EXCEPT ![c] =
                  [pc |-> IF ev # None /\ sid # "" THEN "stamped" ELSE "passed",
                   sid |-> sid, ev |-> ev, at |-> now, result |-> NoResult]]
    /\ UNCHANGED <<now, sessions, sse, dedup_cache, notHookVars>>

\* api_hook: the dedup check and insert, under the cache's write lock
HookDedup(c) ==
    LET key == dedup_key(hook[c].sid, hook[c].ev[1])
        hit == key \in DOMAIN dedup_cache /\ dedup_hit(hook[c].at, dedup_cache[key])
    IN  /\ hook[c].pc = "stamped"
        /\ dedup_cache' = IF hit THEN dedup_cache ELSE MapPut(dedup_cache, key, hook[c].at)
        /\ hook' = [hook EXCEPT ![c] =
                      IF hit
                      THEN [@ EXCEPT !.pc = "done", !.result = [ok |-> TRUE, dedup |-> TRUE]]
                      ELSE [@ EXCEPT !.pc = "passed"]]
        /\ UNCHANGED <<now, sessions, sse, notHookVars>>

\* api_hook: the session update and activity frame for user_prompt / pre_tool
HookApply(c) ==
    LET act == /\ hook[c].sid # ""
               /\ hook[c].ev \in {Some("UserPrompt"), Some("PreTool")}
    IN  /\ hook[c].pc = "passed"
        /\ sessions' = IF act
                       THEN SessionTracker_update(sessions, hook[c].sid,
                              [NoUpdate EXCEPT !.status = Some("Active"),
                                               !.cwd = Some(HookCwd),
                                               !.notification_type = Some(""),
                                               !.notification_message = Some("")], now)
                       ELSE sessions
        /\ sse' = IF act
                  THEN Append(sse, [type |-> "activity", id |-> BogusId,
                                    session_id |-> hook[c].sid,
                                    event |-> HookEventName(hook[c].ev[1]),
                                    decision |-> ""])
                  ELSE sse
        /\ hook' = [hook EXCEPT ![c] =
                      [@ EXCEPT !.pc = "done", !.result = [ok |-> TRUE, dedup |-> FALSE]]]
        /\ UNCHANGED <<now, dedup_cache, notHookVars>>

\* run_server: the dedup sweep task
DedupSweep ==
    /\ dedup_cache' = [k \in {x \in DOMAIN dedup_cache : sweep_retain(dedup_cache[x], now)}
                         |-> dedup_cache[k]]
    /\ dedup_cache' # dedup_cache
    /\ UNCHANGED <<now, sessions, sse, hook, notHookVars>>

\* the wall clock advances; a call that has read the clock gets the write
\* lock within MaxStallMs
HookTick ==
    /\ \E t \in HookTimes :
          /\ t > now
          /\ \A c \in HookCallIds : hook[c].pc = "stamped" => t - hook[c].at <= MaxStallMs
          /\ now' = t
    /\ UNCHANGED <<sessions, sse, dedup_cache, hook, notHookVars>>

(***************************************************************************)
(* /api/signal and the event store.                                        *)
(***************************************************************************)
MaxSignals == 2              \* api_signal calls
MaxClears == 1               \* clear requests
EvTickMs == 500              \* granularity of the clock
MaxEvTicks == 2              \* the clock stops after this many ticks
MaxEventsAgeMs == 500        \* config.manager.max_events_age, scaled

SigIds == 1..MaxSignals
RdrIds == {1, 2, 3}
Rand6 == {"a1b2c3", "d4e5f6"}     \* the first 6 characters of a fresh uuid
SignalSessionIds == {"S1"}
SignalEvents == {"Stop"}
SignalCwd == <<"C", ":", "/", "q">>

SignalPayloads ==
    [event : SignalEvents, session_id : SignalSessionIds, cwd : {SignalCwd},
     notification_type : {""}, message : {""}, last_assistant_message : {"done."}]

OptStr_always(str) == Some(str)

\* api_signal: if s.is_empty() { None } else { Some(s.clone()) }
OptStr(str) == IF str = "" THEN None ELSE Some(str)

\* api_signal, step 1: the session update of each event
signal_session_update(ss, p, t) ==
    IF p.session_id = "" THEN ss
    ELSE CASE p.event = "SessionStart" ->
                SessionTracker_register(ss, p.session_id, p.cwd, t)
           [] p.event = "SessionEnd" ->
                SessionTracker_update(ss, p.session_id,
                    [NoUpdate EXCEPT !.status = Some("Ended"), !.cwd = Some(p.cwd)], t)
           [] p.event = "Stop" ->
                SessionTracker_update(ss, p.session_id,
                    [NoUpdate EXCEPT !.status = Some("Waiting"), !.cwd = Some(p.cwd),
                                     !.last_message = OptStr(p.last_assistant_message),
                                     !.notification_type = Some(""),
                                     !.notification_message = Some("")], t)
           [] p.event = "Notification" ->
                SessionTracker_update(ss, p.session_id,
                    [NoUpdate EXCEPT
                       !.status = Some(IF p.notification_type = "permission_prompt"
                                       THEN "Waiting" ELSE "Idle"),
                       !.cwd = Some(p.cwd),
                       !.notification_type = OptStr(p.notification_type),
                       !.notification_message = OptStr(p.message)], t)
           [] OTHER -> ss

\* api_signal, step 3: level
event_level(ev) ==
    CASE ev \in {"SessionStart", "SessionEnd"} -> 1
      [] ev = "Stop" -> 2
      [] ev = "Notification" -> 3
      [] OTHER -> 1

\* api_signal, step 3: format!("evt_{}_{}", now as u64, short_id)
event_id(t, short_id) == <<"evt", t \div 1000, short_id>>

\* api_signal, step 3: the Event (call is not a field: it names the call that
\* built the event)
new_event(p, t, short_id, call) ==
    [id |-> event_id(t, short_id), ts |-> t, event |-> p.event,
     session_id |-> p.session_id, level |-> event_level(p.event),
     cleared |-> FALSE, call |-> call]

NoPayload ==
    [event |-> "Unknown", session_id |-> "", cwd |-> <<>>, notification_type |-> "",
     message |-> "", last_assistant_message |-> ""]
NoEvent == new_event(NoPayload, 0, "", 0)

\* the length of an event's line: serde_json::to_string writes "cleared":true
\* one byte shorter than "cleared":false
line_len(e) == 100 + (IF e.cleared THEN 4 ELSE 5)

RECURSIVE file_size(_)
\* fs::metadata(path).len()
file_size(f) == IF f = <<>> THEN 0 ELSE line_len(Head(f)) + file_size(Tail(f))

\* fs::metadata after a write at time t
meta_of(f, t) == Some([mtime |-> t, size |-> file_size(f)])

\* meta.as_ref().and_then(|m| m.modified().ok())
current_mtime(m) == IF m = None THEN None ELSE Some(m[1].mtime)
\* meta.as_ref().map(|m| m.len()).unwrap_or(0)
current_size(m) == IF m = None THEN 0 ELSE m[1].size

\* a get_events call slot that is free
IdleReader ==
    [pc |-> "idle", after |-> 0, mtime |-> None, size |-> 0, events |-> << >>,
     clean |-> FALSE, result |-> << >>]

\* the store changes: no get_events call in flight has seen only this store
Changed(kind) ==
    /\ chg' = kind
    /\ rdr' = [g \in RdrIds |-> [rdr[g] EXCEPT !.clean = FALSE]]

InitEvVars ==
    /\ file = << >>
    /\ fmeta = None
    /\ cache = [events |-> << >>, last_mtime |-> None, last_size |-> 0]
    /\ sig = [c \in SigIds |-> [pc |-> "idle", p |-> NoPayload, evt |-> NoEvent]]
    /\ rdr = [g \in RdrIds |-> IdleReader]
    /\ chg = "none"

\* api_signal steps 1 to 3: decode, update the session, read the clock, mint
\* the id and build the Event
SigEnter(c, p, short_id) ==
    /\ sig[c].pc = "idle"
    /\ \A b \in SigIds : b < c => sig[b].pc # "idle"
    /\ sessions' = signal_session_update(sessions, p, now)
    /\ sig' = [sig EXCEPT ![c] = [pc |-> "built", p |-> p,
                                  evt |-> new_event(p, now, short_id, c)]]
    /\ UNCHANGED <<now, sse, file, fmeta, cache, rdr, chg, notEvVars>>

\* EventStore::append_event: the line is appended to the file (no lock held)
SigAppendFile(c) ==
    /\ sig[c].pc = "built"
    /\ file' = Append(file, sig[c].evt)
    /\ fmeta' = meta_of(file', now)
    /\ sig' = [sig EXCEPT ![c].pc = "written"]
    /\ Changed("append")
    /\ UNCHANGED <<now, sessions, sse, cache, notEvVars>>

\* EventStore::append_event: under the cache's write lock push the event and
\* record the file's metadata
SigPushCache(c) ==
    /\ sig[c].pc = "written"
    /\ cache' = [events |-> Append(cache.events, sig[c].evt),
                 last_mtime |-> IF fmeta = None THEN cache.last_mtime
                                ELSE current_mtime(fmeta),
                 last_size |-> IF fmeta = None THEN cache.last_size
                               ELSE current_size(fmeta)]
    /\ sig' = [sig EXCEPT ![c].pc = "pushed"]
    /\ Changed("append")
    /\ UNCHANGED <<now, sessions, sse, file, fmeta, notEvVars>>

\* api_signal steps 4 to 7: broadcast the event frame (tray, toast and push
\* channels are collaborators)
SigBroadcast(c) ==
    /\ sig[c].pc = "pushed"
    /\ sse' = Append(sse, [type |-> "event", id |-> BogusId,
                           session_id |-> sig[c].evt.session_id,
                           event |-> HookEventName(sig[c].evt.event), decision |-> ""])
    /\ sig' = [sig EXCEPT ![c].pc = "done"]
    /\ UNCHANGED <<now, sessions, file, fmeta, cache, rdr, chg, notEvVars>>

\* get_events(after_ts) starts; EventStore::refresh_cache: fs::metadata
RdrMeta(g, after) ==
    /\ rdr[g].pc = "idle"
    /\ rdr' = [rdr EXCEPT ![g] = [@ EXCEPT !.pc = "meta", !.after = after,
                                           !.mtime = current_mtime(fmeta),
                                           !.size = current_size(fmeta),
                                           !.events = << >>,
                                           !.clean = TRUE]]
    /\ UNCHANGED <<now, sessions, sse, file, fmeta, cache, sig, chg, notEvVars>>

\* EventStore::refresh_cache: compare with the cached metadata under the
\* read lock
RdrCheck(g) ==
    /\ rdr[g].pc = "meta"
    /\ rdr' = [rdr EXCEPT ![g].pc =
                 IF cache.last_mtime = rdr[g].mtime /\ cache.last_size = rdr[g].size
                 THEN "fresh" ELSE "stale"]
    /\ UNCHANGED <<now, sessions, sse, file, fmeta, cache, sig, chg, notEvVars>>

\* EventStore::read_file
RdrReadFile(g) ==
    /\ rdr[g].pc = "stale"
    /\ rdr' = [rdr EXCEPT ![g] = [@ EXCEPT !.pc = "read", !.events = file]]
    /\ UNCHANGED <<now, sessions, sse, file, fmeta, cache, sig, chg, notEvVars>>

\* EventStore::refresh_cache: replace the cache under the write lock
RdrStore(g) ==
    /\ rdr[g].pc = "read"
    /\ cache' = [events |-> rdr[g].events, last_mtime |-> rdr[g].mtime,
                 last_size |-> rdr[g].size]
    /\ rdr' = [rdr EXCEPT ![g].pc = "fresh"]
    /\ UNCHANGED <<now, sessions, sse, file, fmeta, sig, chg, notEvVars>>


\* EventStore::get_events: the filter, !e.cleared && e.ts > after_ts when
\* after_ts > 0.0 and !e.cleared otherwise
get_events_filter(e, after) == ~ e.cleared /\ (after > 0 => e.ts > after)

RECURSIVE filter_events(_, _)
\* EventStore::get_events: Iterator::filter over the cache, in order
filter_events(es, after) ==
    IF es = <<>> THEN <<>>
    ELSE (IF get_events_filter(Head(es), after) THEN <<Head(es)>> ELSE <<>>)
         \o filter_events(Tail(es), after)

\* EventStore::get_events: filter the cache under the read lock and return
RdrReturn(g) ==
    /\ rdr[g].pc = "fresh"
    /\ rdr' = [rdr EXCEPT ![g] = [@ EXCEPT !.pc = "returned",
                                           !.result = filter_events(cache.events,
                                                                        rdr[g].after)]]
    /\ UNCHANGED <<now, sessions, sse, file, fmeta, cache, sig, chg, notEvVars>>

\* api_events: the response is sent
RdrDone(g) ==
    /\ rdr[g].pc = "returned"
    /\ rdr' = [rdr EXCEPT ![g] = IdleReader]
    /\ UNCHANGED <<now, sessions, sse, file, fmeta, cache, sig, chg, notEvVars>>

\* api_clear and the tray's clear item: EventStore::clear_all under the
\* cache's write lock, then the clear frame
ClearAll ==
    LET es == [i \in 1..Len(cache.events) |-> [cache.events[i] EXCEPT !.cleared = TRUE]]
    IN  /\ Cardinality({i \in DOMAIN sse : sse[i].type = "clear"}) < MaxClears
        /\ file' = es
        /\ fmeta' = meta_of(es, now)
        /\ cache' = [events |-> es, last_mtime |-> current_mtime(fmeta'),
                     last_size |-> current_size(fmeta')]
        /\ sse' = Append(sse, [type |-> "clear", id |-> BogusId, session_id |-> "",
                               event |-> "", decision |-> ""])
        /\ Changed("clear")
        /\ UNCHANGED <<now, sessions, sig, notEvVars>>

\* EventStore::compact: cache.events.retain(|e| e.ts >= cutoff)
compact_keep(ts, t) == ts >= t - MaxEventsAgeMs

RECURSIVE retain_events(_, _)
\* EventStore::compact: Vec::retain keeps the order of the survivors
retain_events(es, t) ==
    IF es = <<>> THEN <<>>
    ELSE (IF compact_keep(Head(es).ts, t) THEN <<Head(es)>> ELSE <<>>)
         \o retain_events(Tail(es), t)

\* EventStore::compact, under the cache's write lock: the file is rewritten
\* from the cache whether or not an event was dropped
Compact ==
    LET es == retain_events(cache.events, now)
    IN  /\ file' = es
        /\ fmeta' = meta_of(es, now)
        /\ cache' = [events |-> es, last_mtime |-> current_mtime(fmeta'),
                     last_size |-> current_size(fmeta')]
        /\ Changed("compact")
        /\ UNCHANGED <<now, sessions, sse, sig, notEvVars>>

\* the wall clock advances
EvTick ==
    /\ now < MaxEvTicks * EvTickMs
    /\ now' = now + EvTickMs
    /\ UNCHANGED <<sessions, sse, file, fmeta, cache, sig, rdr, chg, notEvVars>>

(***************************************************************************)
(* scan_and_merge: reconciliation of the process scan with the tracker.    *)
(***************************************************************************)
MaxMergeProcs == 2           \* cached processes
SessionTtlMs == 2000         \* config.general.session_ttl, scaled
MergeNow == 3000             \* the clock at the call

SidNames == <<"S1", "S2", "S3", "S4">>
MergeSessionIds == {"S1", "S2"}
MergeStatuses == {"Active", "Idle", "Ended"}
\* two spellings of one directory, a second directory, and two paths that
\* normalise to the empty string
MergeCwds ==
    {<<"C", ":", "/", "q">>, <<"c", ":", "\\", "q", "\\">>, <<"d">>, <<"/">>, << >>}
MergeTimes == {MergeNow - SessionTtlMs - 1, MergeNow - SessionTtlMs, MergeNow - 1}

\* str::replace('/', "\\") followed by to_lowercase, one character
lower_backslash(ch) ==
    CASE ch = "/" -> "\\"
      [] ch = "C" -> "c"
      [] ch = "D" -> "d"
      [] ch = "Q" -> "q"
      [] OTHER -> ch

RECURSIVE trim_end_backslash(_)
\* str::trim_end_matches('\\')
trim_end_backslash(str) ==
    IF str # <<>> /\ str[Len(str)] = "\\"
    THEN trim_end_backslash(SubSeq(str, 1, Len(str) - 1))
    ELSE str

\* scan_and_merge: cwd.replace('/', "\\").to_lowercase(), trailing '\\' trimmed
normalize_cwd(cwd) ==
    trim_end_backslash([i \in 1..Len(cwd) |-> lower_backslash(cwd[i])])

\* SessionTracker::get_active
get_active(ss, ttl, t) ==
    LET live == {sid \in DOMAIN ss : ss[sid].updated_at >= t - ttl}
    IN  [sid \in live |-> ss[sid]]

\* scan_and_merge: the status string of a row
merge_status(st) ==
    CASE st \in {"Waiting", "Idle"} -> "waiting"
      [] st \in {"Stopped", "Ended"} -> "stopped"
      [] st = "Active" -> "active"
      [] OTHER -> "waiting"

\* scan_and_merge: cwd_tracker.get(key), the sessions of one normalised cwd in
\* the map's iteration order
cwd_tracker(tracked, order, key) ==
    LET Listed(sid) == /\ tracked[sid].status # "Ended"
                       /\ normalize_cwd(tracked[sid].cwd) # <<>>
                       /\ normalize_cwd(tracked[sid].cwd) = key
    IN  SelectSeq(order, Listed)

max_by_first(tracked, entries, best) == best

RECURSIVE max_by_updated_at(_, _, _)
\* Iterator::max_by on updated_at: the last of several maxima wins
max_by_updated_at(tracked, entries, best) ==
    IF entries = <<>> THEN best
    ELSE max_by_updated_at(tracked, Tail(entries),
            IF tracked[Head(entries)].updated_at >= tracked[best].updated_at
            THEN Head(entries) ELSE best)

merge_row(proc, sid, info, cwd, phase) ==
    [pid |-> proc.pid, session_id |-> sid, status |-> merge_status(info.status),
     cwd |-> cwd, phase |-> phase]

RECURSIVE merge_phase1(_, _, _, _)
\* scan_and_merge: the loop over the cached processes (CWD match only)
merge_phase1(procs, tracked, order, acc) ==
    IF procs = <<>> THEN acc
    ELSE LET proc == Head(procs)
             Free(sid) == sid \notin acc.matched
             cands == SelectSeq(cwd_tracker(tracked, order, normalize_cwd(proc.cwd)), Free)
         IN  IF cands = <<>>
             THEN merge_phase1(Tail(procs), tracked, order,
                               [acc EXCEPT !.unmatched = Append(@, proc)])
             ELSE LET sid == max_by_updated_at(tracked, Tail(cands), Head(cands))
                      info == tracked[sid]
                      display_cwd == IF info.cwd = <<>> THEN proc.cwd ELSE info.cwd
                  IN  merge_phase1(Tail(procs), tracked, order,
                         [acc EXCEPT !.matched = @ \cup {sid},
                                     !.result = Append(@, merge_row(proc, sid, info,
                                                                    display_cwd, 1))])

sort_keep_order(tracked, sids) == sids

RECURSIVE sort_recent_first(_, _)
\* slice::sort_by(|a, b| b.updated_at.partial_cmp(&a.updated_at)): stable,
\* most recently updated first
sort_recent_first(tracked, sids) ==
    IF sids = <<>> THEN <<>>
    ELSE LET rest == sort_recent_first(tracked, Tail(sids))
             Before(x) == tracked[x].updated_at > tracked[Head(sids)].updated_at
             NotBefore(x) == ~ Before(x)
         IN  SelectSeq(rest, Before) \o <<Head(sids)>> \o SelectSeq(rest, NotBefore)

merge_phase2_skipped(procs, tracked, unmatched_trackers, result) == result

RECURSIVE merge_phase2(_, _, _, _)
\* scan_and_merge, phase 2: each unmatched process takes the first of the
\* remaining unmatched tracker entries
merge_phase2(procs, tracked, unmatched_trackers, result) ==
    IF procs = <<>> THEN result
    ELSE IF unmatched_trackers = <<>>
         THEN merge_phase2(Tail(procs), tracked, unmatched_trackers, result)
         ELSE LET sid == Head(unmatched_trackers)
              IN  merge_phase2(Tail(procs), tracked, Tail(unmatched_trackers),
                     Append(result, merge_row(Head(procs), sid, tracked[sid],
                                              tracked[sid].cwd, 2)))

unmatched_with_ended(tracked, order, matched) ==
    LET Left(sid) == sid \notin matched
    IN  SelectSeq(order, Left)

\* scan_and_merge, phase 2: tracked.values() that are not Ended and not matched
unmatched_of(tracked, order, matched) ==
    LET Left(sid) == tracked[sid].status # "Ended" /\ sid \notin matched
    IN  SelectSeq(order, Left)

\* scan_and_merge; order is the iteration order of the HashMap get_active
\* returned
scan_and_merge(procs, tracked, order) ==
    LET p1 == merge_phase1(procs, tracked, order,
                           [matched |-> {}, result |-> <<>>, unmatched |-> <<>>])
    IN  merge_phase2(p1.unmatched, tracked,
                     sort_recent_first(tracked, unmatched_of(tracked, order, p1.matched)),
                     p1.result)

\* the orders in which a HashMap with these keys can iterate
Orders(keys) ==
    {o \in [1..Cardinality(keys) -> keys] : \A i, j \in DOMAIN o : i # j => o[i] # o[j]}

\* the cached scans: pids in scan order, each with a cwd
MergeScans ==
    UNION {[1..n -> MergeCwds] : n \in 0..MaxMergeProcs}

InitMergeVars ==
    /\ processes = << >>
    /\ merged = None
    /\ status = None

\* GET /api/processes and the tray updater: scan_and_merge on the current
\* registry cache and tracker
ScanAndMerge(order) ==
    /\ merged = None
    /\ merged' = Some(scan_and_merge(processes, get_active(sessions, SessionTtlMs, now), order))
    /\ UNCHANGED <<now, sessions, sse, processes, status, notMergeVars>>

(***************************************************************************)
(* compute_state: the summary of a merged list.                            *)
(***************************************************************************)
MaxStatusRows == 4           \* rows of a merged list

\* the "status" member of a row: the three strings scan_and_merge writes,
\* and a row whose status is none of them
RowStatuses == {"waiting", "active", "stopped", ""}

\* compute_state: the counting loop, one counter
RECURSIVE count_status(_, _)
count_status(rows, st) ==
    IF rows = << >> THEN 0
    ELSE (IF Head(rows).status = st THEN 1 ELSE 0) + count_status(Tail(rows), st)

compute_state_thinking_first(rows) ==
    LET active_count == Len(rows)
        waiting_count == count_status(rows, "waiting")
        working_count == count_status(rows, "active")
    IN  [state |-> IF active_count = 0 THEN "sleeping"
                   ELSE IF working_count > 0 THEN "thinking"
                   ELSE IF waiting_count > 0 THEN "attention"
                   ELSE "done",
         active_processes |-> active_count,
         pending_actions |-> waiting_count]

\* compute_state
compute_state(rows) ==
    LET active_count == Len(rows)
        waiting_count == count_status(rows, "waiting")
        working_count == count_status(rows, "active")
    IN  [state |-> IF active_count = 0 THEN "sleeping"
                   ELSE IF waiting_count > 0 THEN "attention"
                   ELSE IF working_count > 0 THEN "thinking"
                   ELSE "done",
         active_processes |-> active_count,
         pending_actions |-> waiting_count]

\* the merged lists of up to MaxStatusRows rows
StatusRows ==
    UNION {[1..n -> RowStatuses] : n \in 0..MaxStatusRows}

\* api_status and the tray updater: compute_state on a merged list
ComputeState ==
    /\ merged # None
    /\ status = None
    /\ status' = Some(compute_state(merged[1]))
    /\ UNCHANGED <<now, sessions, sse, processes, merged, notMergeVars>>

(***************************************************************************)
(* SessionTracker::new: loading the snapshot at startup.                   *)
(***************************************************************************)
MaxStartSessions == 2        \* sessions in the snapshot
StaleThresholdMs == 300000   \* stale_threshold
StartNow == 1000000          \* the clock at startup

StartSessionIds == {SidNames[i] : i \in 1..MaxStartSessions}
StartTimes == {StartNow - StaleThresholdMs - 1, StartNow - StaleThresholdMs, StartNow - 1}

is_stale_at_threshold(t, updated_at) == (t - updated_at) >= StaleThresholdMs

\* SessionTracker::new: is_stale
is_stale(t, updated_at) == (t - updated_at) > StaleThresholdMs

\* SessionTracker::new: should_demote
should_demote(info, t) ==
    is_stale(t, info.updated_at) /\ info.status \in {"Active", "Waiting", "Stopped"}

\* SessionTracker::new: the sessions the tracker starts with
SessionTracker_new(snap, t) ==
    [sid \in DOMAIN snap |->
        IF should_demote(snap[sid], t) THEN [snap[sid] EXCEPT !.status = "Idle"]
        ELSE snap[sid]]

InitStartVars ==
    /\ snapshot = << >>
    /\ started = FALSE

\* lib.rs run(): AppState::new builds the tracker from the snapshot
Startup ==
    /\ ~ started
    /\ sessions' = SessionTracker_new(snapshot, now)
    /\ started' = TRUE
    /\ UNCHANGED <<now, sse, snapshot, notStartVars>>

(***************************************************************************)
(* SessionTracker: the dirty flag and flush_if_dirty.                      *)
(***************************************************************************)
MaxMutations == 3            \* register/update/remove/purge calls that set dirty
MaxFlushCalls == 3           \* flush_if_dirty calls
FlushTickMs == 1000          \* granularity of the clock
MaxFlushTicks == 2           \* the clock stops after this many ticks
PurgeTtlMs == 1000           \* config.general.session_ttl, scaled

FlushIds == {1, 2}           \* the periodic flusher and api_delete_session
FlushSessionIds == {"S1", "S2"}
FlushStatuses == {"Active", "Ended"}

\* SessionTracker::remove
SessionTracker_remove(ss, sid) == [x \in (DOMAIN ss) \ {sid} |-> ss[x]]

\* SessionTracker::purge_stale: the retain predicate
purge_keep(info, ttl, t) == ~ (info.status = "Ended" /\ info.updated_at < t - ttl)

\* SessionTracker::purge_stale
SessionTracker_purge_stale(ss, ttl, t) ==
    [x \in {sid \in DOMAIN ss : purge_keep(ss[sid], ttl, t)} |-> ss[x]]

InitFlushVars ==
    /\ dirty = FALSE
    /\ snapfile = None
    /\ fl = [f \in FlushIds |-> "idle"]
    /\ mutations = 0
    /\ writes = 0
    /\ flushes = 0
    /\ seen = 0

SetDirty_forgets ==
    /\ mutations < MaxMutations
    /\ dirty' = dirty
    /\ mutations' = mutations + 1

\* self.dirty.store(true)
SetDirty ==
    /\ mutations < MaxMutations
    /\ dirty' = TRUE
    /\ mutations' = mutations + 1

\* SessionTracker::register
TrackerRegister(sid) ==
    /\ sessions' = SessionTracker_register(sessions, sid, <<"d">>, now)
    /\ SetDirty
    /\ UNCHANGED <<now, sse, snapfile, fl, writes, flushes, seen, notFlushVars>>

\* SessionTracker::update
TrackerUpdate(sid, st) ==
    /\ sessions' = SessionTracker_update(sessions, sid,
                                         [NoUpdate EXCEPT !.status = Some(st)], now)
    /\ SetDirty
    /\ UNCHANGED <<now, sse, snapfile, fl, writes, flushes, seen, notFlushVars>>

\* SessionTracker::remove of a tracked session (of any other it changes
\* nothing)
TrackerRemove(sid) ==
    /\ sid \in DOMAIN sessions
    /\ sessions' = SessionTracker_remove(sessions, sid)
    /\ SetDirty
    /\ UNCHANGED <<now, sse, snapfile, fl, writes, flushes, seen, notFlushVars>>

\* SessionTracker::purge_stale: dirty only if a session was removed
TrackerPurge ==
    /\ sessions' = SessionTracker_purge_stale(sessions, PurgeTtlMs, now)
    /\ sessions' # sessions
    /\ SetDirty
    /\ UNCHANGED <<now, sse, snapfile, fl, writes, flushes, seen, notFlushVars>>

FlushSwap_keeps_dirty(f) ==
    /\ fl[f] = "idle"
    /\ flushes < MaxFlushCalls
    /\ flushes' = flushes + 1
    /\ seen' = mutations
    /\ dirty' = dirty
    /\ fl' = [fl EXCEPT ![f] = IF dirty THEN "swapped" ELSE "idle"]
    /\ UNCHANGED <<now, sessions, sse, snapfile, mutations, writes, notFlushVars>>

\* flush_if_dirty: self.dirty.swap(false); return if it was false
FlushSwap(f) ==
    /\ fl[f] = "idle"
    /\ flushes < MaxFlushCalls
    /\ flushes' = flushes + 1
    /\ seen' = mutations
    /\ dirty' = FALSE
    /\ fl' = [fl EXCEPT ![f] = IF dirty THEN "swapped" ELSE "idle"]
    /\ UNCHANGED <<now, sessions, sse, snapfile, mutations, writes, notFlushVars>>

\* flush_if_dirty: serialise the sessions under the read lock and write the file
FlushWrite(f) ==
    /\ fl[f] = "swapped"
    /\ snapfile' = Some(sessions)
    /\ writes' = writes + 1
    /\ fl' = [fl EXCEPT ![f] = "idle"]
    /\ UNCHANGED <<now, sessions, sse, dirty, mutations, flushes, seen, notFlushVars>>

\* flush_if_dirty: fs::write fails; `let _ =` drops the error and the call
\* returns
FlushWriteFails(f) ==
    /\ fl[f] = "swapped"
    /\ fl' = [fl EXCEPT ![f] = "idle"]
    /\ UNCHANGED <<now, sessions, sse, dirty, snapfile, mutations, writes, flushes, seen,
                   notFlushVars>>

\* the wall clock advances
FlushTick ==
    /\ now < MaxFlushTicks * FlushTickMs
    /\ now' = now + FlushTickMs
    /\ UNCHANGED <<sessions, sse, flushVars, notFlushVars>>

(***************************************************************************)
(* sse.rs: the broadcaster behind /api/stream.  tokio's broadcast channel  *)
(* keeps the latest CHANNEL_CAPACITY values; send never waits; a receiver  *)
(* that fell behind gets RecvError::Lagged once and resumes at the oldest  *)
(* value still kept.  `sse` lists every frame handed to broadcast, so the  *)
(* values kept are its last CHANNEL_CAPACITY entries and a receiver is a   *)
(* position in it.                                                         *)
(***************************************************************************)
CHANNEL_CAPACITY == 2        \* CHANNEL_CAPACITY (100), scaled
MaxFrames == 5               \* broadcast calls
SubIds == {1, 2}             \* /api/stream connections
SseTypes == {"refresh", "clear"}

NoSub == [st |-> "none", start |-> 0, next |-> 0, got |-> << >>, lagged |-> 0]

InitStrmVars == sub = [u \in SubIds |-> NoSub]

\* SSEBroadcaster::broadcast with an empty object as data: "type" is
\* inserted and the frame is sent
SSEBroadcaster_broadcast(frames, event_type) ==
    Append(frames, [type |-> event_type, id |-> BogusId, session_id |-> "",
                    event |-> "", decision |-> ""])

\* the position of the oldest value the channel still keeps
oldest_kept(frames) ==
    IF Len(frames) > CHANNEL_CAPACITY THEN Len(frames) - CHANNEL_CAPACITY + 1 ELSE 1

SseBroadcast_waits(event_type) ==
    /\ Len(sse) < MaxFrames
    /\ \A u \in SubIds :
          sub[u].st = "open" => Len(sse) - sub[u].next + 1 < CHANNEL_CAPACITY
    /\ sse' = SSEBroadcaster_broadcast(sse, event_type)
    /\ UNCHANGED <<now, sessions, sub, notStrmVars>>

\* the heartbeat task, api_clear and api_delete_session: sse.broadcast(..)
SseBroadcast(event_type) ==
    /\ Len(sse) < MaxFrames
    /\ sse' = SSEBroadcaster_broadcast(sse, event_type)
    /\ UNCHANGED <<now, sessions, sub, notStrmVars>>

\* api_stream: state.sse.subscribe(); the receiver starts after the frames
\* sent so far
Subscribe(u) ==
    /\ sub[u].st = "none"
    /\ sub' = [sub EXCEPT ![u] = [st |-> "open", start |-> Len(sse) + 1,
                                  next |-> Len(sse) + 1, got |-> << >>, lagged |-> 0]]
    /\ UNCHANGED <<now, sessions, sse, notStrmVars>>

\* api_stream: the response body polls BroadcastStream once.  Err(Lagged) is
\* filtered out (the receiver has moved to the oldest kept value); Ok(msg)
\* becomes an SSE data frame, recorded by its position in `sse`
StreamPoll(u) ==
    /\ sub[u].st = "open"
    /\ sub[u].next <= Len(sse)
    /\ sub' = [sub EXCEPT ![u] =
                 IF @.next < oldest_kept(sse)
                 THEN [@ EXCEPT !.next = oldest_kept(sse),
                                !.lagged = @ + (oldest_kept(sse) - sub[u].next)]
                 ELSE [@ EXCEPT !.next = @ + 1,
                                !.got = Append(@, sub[u].next)]]
    /\ UNCHANGED <<now, sessions, sse, notStrmVars>>

\* the client closes its /api/stream connection: the stream and its
\* receiver are dropped
Unsubscribe(u) ==
    /\ sub[u].st = "open"
    /\ sub' = [sub EXCEPT ![u].st = "closed"]
    /\ UNCHANGED <<now, sessions, sse, notStrmVars>>

(***************************************************************************)
(* hooks/src: the agent-desk-hook processes and the hook daemon.  The      *)
(* daemon is one thread: it takes one connection at a time from its        *)
(* listener, forwards the line as a POST and waits for the response.  Its  *)
(* own steps and the server's short handlers take far less than a tick of  *)
(* the clock; only a long poll holds the daemon across ticks.              *)
(***************************************************************************)
MaxHookProcs == 3            \* agent-desk-hook processes
RelayTickMs == 5000          \* granularity of the clock
MaxRelayTicks == 2           \* the clock stops after this many ticks
ReadTimeoutMs == 5000        \* try_send: read timeout of the short events
LongReadTimeoutMs == 660000  \* try_send: read timeout of the long polls

HookProcIds == 1..MaxHookProcs
\* the hooks of a working session, and a permission request of another one
RelayInputs ==
    {[sid |-> "S1", event |-> "stop"], [sid |-> "S1", event |-> "user_prompt"],
     [sid |-> "S2", event |-> "permission_request"]}

NoHookProc == [pc |-> "idle", sid |-> "", event |-> "", t0 |-> 0, after |-> {}]

InitRelayVars ==
    /\ hp = [h \in HookProcIds |-> NoHookProc]
    /\ backlog = << >>
    /\ serving = None
    /\ posts = << >>

\* daemon::run and send_direct: the route of an event
route(event) ==
    CASE event = "user_prompt" -> "/api/hook"
      [] event = "pre_tool" -> "/api/pre-tool-check"
      [] event = "permission_request" -> "/api/permission-request"
      [] OTHER -> "/api/signal"

\* the server answers these only when the user has decided or the
\* permission timeout has passed
long_poll(event) == event \in {"permission_request", "pre_tool"}

\* daemon::try_send: read_timeout
read_timeout(event) ==
    IF event = "permission_request" \/ event = "pre_tool" THEN LongReadTimeoutMs
    ELSE ReadTimeoutMs

\* the server takes a POST
handled(ps, h, via) ==
    Append(ps, [h |-> h, sid |-> hp[h].sid, event |-> hp[h].event,
                url |-> route(hp[h].event), via |-> via])

\* the hook process whose line got its response returns from try_send
answered(h) == [hp EXCEPT ![h].pc = IF @ = "sent" THEN "done" ELSE @]

\* main and daemon::try_send: the process connects to the daemon's port (the
\* listener queues the connection) and writes its line; `after` records the
\* processes that had already exited
HookStart(h, inp) ==
    /\ hp[h].pc = "idle"
    /\ \A g \in HookProcIds : g < h => hp[g].pc # "idle"
    /\ hp' = [hp EXCEPT ![h] = [pc |-> "sent", sid |-> inp.sid, event |-> inp.event,
                                t0 |-> now,
                                after |-> {g \in HookProcIds : hp[g].pc = "done"}]]
    /\ backlog' = Append(backlog, h)
    /\ UNCHANGED <<now, sessions, sse, serving, posts, notRelayVars>>

\* daemon::run, one turn of the accept loop: take the next connection, read
\* its line (it is there even when the client has gone), POST it; a short
\* handler answers at once and the response line is written back, a long
\* poll keeps the daemon waiting
DaemonForward ==
    /\ serving = None
    /\ backlog # << >>
    /\ LET h == Head(backlog)
       IN  /\ posts' = handled(posts, h, "relay")
           /\ backlog' = Tail(backlog)
           /\ IF long_poll(hp[h].event)
              THEN serving' = Some(h) /\ hp' = hp
              ELSE serving' = None /\ hp' = answered(h)
    /\ UNCHANGED <<now, sessions, sse, notRelayVars>>

\* the server answers the long poll; the daemon writes the response line
\* and goes back to accept
ServerRespond ==
    /\ serving # None
    /\ serving' = None
    /\ hp' = answered(serving[1])
    /\ UNCHANGED <<now, sessions, sse, backlog, posts, notRelayVars>>

\* daemon::try_send: read_line fails on the read timeout, try_send returns
\* None
ReadTimeout(h) ==
    /\ hp[h].pc = "sent"
    /\ now - hp[h].t0 >= read_timeout(hp[h].event)
    /\ hp' = [hp EXCEPT ![h].pc = "fallback"]
    /\ UNCHANGED <<now, sessions, sse, backlog, serving, posts, notRelayVars>>

\* main: send_direct, the POST on a connection of the process's own
SendDirect(h) ==
    /\ hp[h].pc = "fallback"
    /\ posts' = handled(posts, h, "direct")
    /\ hp' = [hp EXCEPT ![h].pc = "done"]
    /\ UNCHANGED <<now, sessions, sse, backlog, serving, notRelayVars>>

\* the wall clock advances while nothing short is pending
RelayTick ==
    /\ now < MaxRelayTicks * RelayTickMs
    /\ ~ (serving = None /\ backlog # << >>)
    /\ \A h \in HookProcIds : hp[h].pc # "fallback"
    /\ now' = now + RelayTickMs
    /\ UNCHANGED <<sessions, sse, relayVars, notRelayVars>>

(***************************************************************************)
(* hooks/src: what one agent-desk-hook run sends, by the daemon and by     *)
(* its own direct fallback.  A JSON value is [kind, fields]: an object     *)
(* with string members, or a value of another kind; a line on a stream or  *)
(* on stdout is a string.                                                  *)
(***************************************************************************)
InitFnVars ==
    /\ arg = None
    /\ ret = None

\* serde_json::Value::get(key).and_then(as_str): None unless an object
\* with that member
json_get(data, key) ==
    IF data.kind = "object" /\ key \in DOMAIN data.fields
    THEN Some(data.fields[key]) ELSE None

\* Option::or_else
or_else(o, p) == IF o = None THEN p ELSE o

\* Option::unwrap_or
unwrap_or(o, dflt) == IF o = None THEN dflt ELSE o[1]

\* main: obj.insert("event", event) when the payload is an object (hook_pid
\* and agent_pid are inserted too and read by nobody here)
inject_event(data, event) ==
    IF data.kind = "object"
    THEN [data EXCEPT !.fields = [k \in DOMAIN data.fields \cup {"event"} |->
                                     IF k = "event" THEN event ELSE data.fields[k]]]
    ELSE data

\* daemon::run and send_direct: the payload of /api/pre-tool-check
pre_tool_payload(data) ==
    [session_id |-> unwrap_or(or_else(json_get(data, "session_id"),
                                      json_get(data, "sessionId")), ""),
     cwd |-> unwrap_or(json_get(data, "cwd"), ""),
     tool_name |-> unwrap_or(or_else(json_get(data, "tool_name"),
                                     json_get(data, "toolName")), ""),
     tool_input |-> unwrap_or(or_else(json_get(data, "tool_input"),
                                      json_get(data, "input")), "{}"),
     raw |-> data]

\* the request an event is turned into
upstream_request(event, data) ==
    CASE event = "user_prompt" ->
           [url |-> "/api/hook", query |-> event, body |-> data]
      [] event = "pre_tool" ->
           [url |-> "/api/pre-tool-check", query |-> "", body |-> pre_tool_payload(data)]
      [] event = "permission_request" ->
           [url |-> "/api/permission-request", query |-> "", body |-> data]
      [] OTHER ->
           [url |-> "/api/signal", query |-> "", body |-> data]

\* daemon::run: the event is read from the line received
daemon_request(data) == upstream_request(unwrap_or(json_get(data, "event"), ""), data)

\* send_direct: the event is the --event argument
direct_request(event, data) == upstream_request(event, data)

upstream_failed_reply_deny(event) ==
    IF event = "pre_tool" \/ event = "permission_request"
    THEN "{\"decision\":\"deny\"}" ELSE "{\"ok\":false}"

\* daemon::run: the Err(_) arms of the four routes
upstream_failed_reply(event) ==
    IF event = "pre_tool" \/ event = "permission_request" THEN "" ELSE "{\"ok\":false}"

\* daemon::run: the response line for a request, given what the upstream
\* call gave (None: the call failed; Some(body): the server's body)
daemon_reply(data, upstream) ==
    IF upstream = None
    THEN upstream_failed_reply(unwrap_or(json_get(data, "event"), ""))
    ELSE upstream[1]

\* main after try_send returned Some(response): what goes to stdout
relay_stdout(event, response) ==
    IF response # "" /\ (event = "permission_request" \/ event = "pre_tool")
    THEN Some(response) ELSE None

\* send_direct: what goes to stdout
direct_stdout(event, upstream) ==
    IF (event = "pre_tool" \/ event = "permission_request") /\ upstream # None
    THEN upstream ELSE None

MaxStdinMembers == 2         \* members of the hook's stdin object

EventArgs == {"user_prompt", "pre_tool", "permission_request", "stop", "resume"}
StdinKeys == {"session_id", "sessionId", "tool_name", "toolName", "cwd", "event"}
\* what the agent can write to the hook's stdin: objects with some of the
\* keys the hook reads, and a JSON value that is no object
StdinValues ==
    {[kind |-> "array", fields |-> << >>]} \cup
    {[kind |-> "object", fields |-> [k \in ks |-> "v-" \o k]] :
        ks \in {x \in SUBSET StdinKeys : Cardinality(x) <= MaxStdinMembers}}
\* the bodies the server answers with
ServerBodies == {"{\"decision\":\"allow\"}", "{\"decision\":\"deny\"}", "{\"ok\":true}"}

\* one run of the hook with the daemon listening: main, try_send, the
\* daemon's turn, and the response back to main
RunRelay ==
    /\ arg # None
    /\ ret[1].relay = None
    /\ LET data == inject_event(arg[1].stdin, arg[1].event)
           line == daemon_reply(data, arg[1].upstream)
       IN  ret' = Some([ret[1] EXCEPT !.relay =
                          Some([request |-> daemon_request(data), reply |-> line,
                                stdout |-> relay_stdout(arg[1].event, line)])])
    /\ UNCHANGED <<now, sessions, sse, arg, notFnVars>>

\* one run of the hook with no daemon: main and send_direct
RunDirect ==
    /\ arg # None
    /\ ret[1].direct = None
    /\ LET data == inject_event(arg[1].stdin, arg[1].event)
       IN  ret' = Some([ret[1] EXCEPT !.direct =
                          Some([request |-> direct_request(arg[1].event, data),
                                stdout |-> direct_stdout(arg[1].event, arg[1].upstream)])])
    /\ UNCHANGED <<now, sessions, sse, arg, notFnVars>>

(***************************************************************************)
(* lib.rs run() and setup.rs: startup of the main process.  The daemon of  *)
(* a previous run may still be alive: run() drops the pid that            *)
(* spawn_hook_daemon returns, and kill_hook_daemon and                     *)
(* kill_orphaned_daemon have no caller.                                    *)
(***************************************************************************)
OrphanPid == 7               \* a daemon left by a previous run
OwnPid == 8                  \* the daemon this run spawns

\* the states of the files: config.yaml (with or without the example
\* template to copy) and the agent's settings.json (with this install's hook
\* entries or not)
ConfigStates == {"present", "absent", "absent-with-example"}
SettingsStates == {"configured", "unconfigured"}

InitBootVars ==
    /\ boot = [pc |-> "start", hook_binary |-> FALSE, effects |-> {}]
    /\ fsys = [config |-> "present", settings |-> "configured"]
    /\ ports = [main |-> "free", daemon |-> None]
    /\ dprocs = << >>

\* init_logging: the log directory and today's log file are created
InitLogging ==
    /\ boot.pc = "start"
    /\ boot' = [boot EXCEPT !.pc = "logging", !.effects = @ \cup {"log"}]
    /\ UNCHANGED <<now, sessions, sse, fsys, ports, dprocs, notBootVars>>

\* config::load_config: a missing config.yaml is copied from the example
\* template when there is one
LoadConfig ==
    /\ boot.pc = "logging"
    /\ IF fsys.config = "absent-with-example"
       THEN /\ fsys' = [fsys EXCEPT !.config = "present"]
            /\ boot' = [boot EXCEPT !.pc = "loaded", !.effects = @ \cup {"config"}]
       ELSE /\ fsys' = fsys
            /\ boot' = [boot EXCEPT !.pc = "loaded"]
    /\ UNCHANGED <<now, sessions, sse, ports, dprocs, notBootVars>>

\* setup::ensure_hooks_configured: with the hook binary next to the
\* executable, settings.json is written unless every entry is already there
ensure_hooks_writes(hook_binary, settings) ==
    hook_binary /\ settings # "configured"

EnsureHooks ==
    /\ boot.pc = "loaded"
    /\ IF ensure_hooks_writes(boot.hook_binary, fsys.settings)
       THEN /\ fsys' = [fsys EXCEPT !.settings = "configured"]
            /\ boot' = [boot EXCEPT !.pc = "hooked", !.effects = @ \cup {"settings"}]
       ELSE /\ fsys' = fsys
            /\ boot' = [boot EXCEPT !.pc = "hooked"]
    /\ UNCHANGED <<now, sessions, sse, ports, dprocs, notBootVars>>

\* run(): the duplicate-instance guard, TcpStream::connect to the port
GuardCheck ==
    /\ boot.pc = "hooked"
    /\ boot' = [boot EXCEPT !.pc = IF ports.main # "free" THEN "exited" ELSE "guarded"]
    /\ UNCHANGED <<now, sessions, sse, fsys, ports, dprocs, notBootVars>>

\* run(): AppState::new and the server thread, which binds the port
StartServer ==
    /\ boot.pc = "guarded"
    /\ ports' = [ports EXCEPT !.main = "self"]
    /\ boot' = [boot EXCEPT !.pc = "serving", !.effects = @ \cup {"listener"}]
    /\ UNCHANGED <<now, sessions, sse, fsys, dprocs, notBootVars>>

\* run(): setup::spawn_hook_daemon; nothing is spawned without the binary
SpawnDaemon ==
    /\ boot.pc = "serving"
    /\ IF boot.hook_binary
       THEN /\ dprocs' = [p \in DOMAIN dprocs \cup {OwnPid} |->
                            IF p = OwnPid THEN [origin |-> "own", st |-> "starting"]
                            ELSE dprocs[p]]
            /\ boot' = [boot EXCEPT !.pc = "spawned", !.effects = @ \cup {"daemon"}]
       ELSE /\ dprocs' = dprocs
            /\ boot' = [boot EXCEPT !.pc = "spawned"]
    /\ UNCHANGED <<now, sessions, sse, fsys, ports, notBootVars>>

\* daemon::run: TcpListener::bind on port + 1; on failure the process exits
DaemonBind(p) ==
    /\ p \in DOMAIN dprocs
    /\ dprocs[p].st = "starting"
    /\ IF ports.daemon = None
       THEN /\ ports' = [ports EXCEPT !.daemon = Some(p)]
            /\ dprocs' = [dprocs EXCEPT ![p].st = "listening"]
       ELSE /\ ports' = ports
            /\ dprocs' = [q \in DOMAIN dprocs \ {p} |-> dprocs[q]]
    /\ UNCHANGED <<now, sessions, sse, boot, fsys, notBootVars>>

(***************************************************************************)
(* server.rs: the JSON body extractor of the POST handlers.                *)
(*                                                                         *)
(* axum's Json<T> extractor rejects a request without an application/json  *)
(* content type (415 Unsupported Media Type), a body that is not JSON (400 *)
(* Bad Request) and JSON that does not fit T (422 Unprocessable Entity).   *)
(* A handler whose argument is Result<Json<T>, JsonRejection> receives the *)
(* rejection; a handler whose argument is Json<T> is not called, and the   *)
(* rejection is the response.                                              *)
(***************************************************************************)
\* the routes that take a JSON body, the type each decodes and the form of
\* its argument
JsonRoutes ==
    [url : {"/api/hook"}, target : {"HookPayload"}, result_arg : {TRUE}] \cup
    [url : {"/api/signal"}, target : {"SignalPayload"}, result_arg : {TRUE}] \cup
    [url : {"/api/permission-request"}, target : {"PermissionRequestPayload"},
     result_arg : {TRUE}] \cup
    [url : {"/api/permission-respond"}, target : {"PermissionRespondPayload"},
     result_arg : {TRUE}] \cup
    [url : {"/api/focus"}, target : {"Value"}, result_arg : {FALSE}]

\* request bodies: not JSON, a JSON string, the object without members, an
\* object with every member of the target; with or without the JSON content
\* type
RequestBodies ==
    [json_content_type : {TRUE}, text : {"garbage", "\"x\"", "{}", "object"}] \cup
    [json_content_type : {FALSE}, text : {"object"}]

\* Json<T>::from_request: None when the body decodes, the status of the
\* rejection otherwise; every member of the payload structs has a default,
\* except PermissionRespondPayload's id and decision
JsonRejection(target, body) ==
    IF ~body.json_content_type THEN Some(415)
    ELSE IF body.text = "garbage" THEN Some(400)
    ELSE IF body.text = "\"x\"" /\ target # "Value" THEN Some(422)
    ELSE IF body.text = "{}" /\ target = "PermissionRespondPayload" THEN Some(422)
    ELSE None

\* the response to a request whose body was rejected
rejected_response(r, e) ==
    IF r.result_arg
    THEN [status |-> 200, body |-> "{\"ok\":false,\"error\":...}"]
    ELSE [status |-> e, body |-> "text/plain"]

\* a POST whose body does not decode: the handler returns at the match on
\* the extractor's result, or is never entered
PostRejected(r, body) ==
    /\ JsonRejection(r.target, body) # None
    /\ arg' = Some([url |-> r.url, body |-> body])
    /\ ret' = Some(rejected_response(r, JsonRejection(r.target, body)[1]))
    /\ UNCHANGED <<now, sessions, sse, notFnVars>>

(***************************************************************************)
(* focus.rs: the title scan and the walk up the process tree.  Strings are *)
(* sequences of one-character strings; a window handle is the window's     *)
(* position in the z-order GetTopWindow / GetWindow(GW_HWNDNEXT) walk.     *)
(***************************************************************************)
MaxWindows == 2              \* top-level windows

TERMINAL_PROCESSES ==
    {"windowsterminal.exe", "wt.exe", "cmd.exe", "powershell.exe", "pwsh.exe",
     "mintty.exe", "conhost.exe", "warp.exe", "alacritty.exe", "hyper.exe",
     "wezterm-gui.exe", "kitty.exe", "tabby.exe", "code.exe"}

\* str::to_lowercase, one character
lower_char(ch) ==
    CASE ch = "C" -> "c"
      [] ch = "Q" -> "q"
      [] ch = "X" -> "x"
      [] OTHER -> ch

\* str::to_lowercase
to_lowercase(str) == [i \in 1..Len(str) |-> lower_char(str[i])]

\* str::replace of one character by another
replace(str, from, to) == [i \in 1..Len(str) |-> IF str[i] = from THEN to ELSE str[i]]

\* str::contains
contains(str, pat) ==
    \E i \in 0..(Len(str) - Len(pat)) : SubSeq(str, i + 1, i + Len(pat)) = pat

RECURSIVE rsplit_next(_)
\* cwd.rsplit(&['/', '\\']).next(): what follows the last separator
rsplit_next(str) ==
    IF str = <<>> \/ str[Len(str)] \in {"/", "\\"} THEN <<>>
    ELSE Append(rsplit_next(SubSeq(str, 1, Len(str) - 1)), str[Len(str)])

\* find_terminal_by_title, find_terminal_for_cwd: variants
title_variants(cwd) ==
    <<to_lowercase(replace(cwd, "/", "\\")),
      to_lowercase(replace(cwd, "\\", "/")),
      to_lowercase(rsplit_next(cwd))>>

\* variants.iter().any(|v| !v.is_empty() && title.contains(v))
title_matches(cwd, title) ==
    \E i \in 1..3 :
        /\ title_variants(cwd)[i] # <<>>
        /\ contains(to_lowercase(title), title_variants(cwd)[i])

\* String::to_lowercase of the executable names of the model
name_lower(name) ==
    CASE name = "Cmd.exe" -> "cmd.exe"
      [] name = "WindowsTerminal.exe" -> "windowsterminal.exe"
      [] OTHER -> name

\* the directories asked for, the titles and the windows of the desktop;
\* proc_name is what get_window_process_name returns for the window, the empty
\* string when the process cannot be opened or queried
ScanCwds == {<<"C", ":", "/", "q">>, <<"q", "\\">>}
WindowTitles == {<< >>, <<"Q">>, <<"x">>, <<"q", "/">>}
Windows == [visible : BOOLEAN, title : WindowTitles, proc_name : {"", "Cmd.exe", "notepad.exe"}]
WindowLists == UNION {[1..n -> Windows] : n \in 0..MaxWindows}

InitScanVars == hwnd = None

\* what a call of find_terminal_by_title leaves alone
notTitleScanVars ==
    <<now, sessions, sse, permVars, hookVars, evVars, mergeVars, startVars, flushVars,
      strmVars, relayVars, bootVars, cdVars>>

\* find_terminal_by_title: GetTopWindow
TitleScanStart ==
    /\ arg # None /\ hwnd = None /\ ret = None
    /\ IF arg[1].windows = << >>
       THEN ret' = Some(None) /\ hwnd' = hwnd
       ELSE hwnd' = Some(1) /\ ret' = ret
    /\ UNCHANGED <<arg, notTitleScanVars>>

\* find_terminal_by_title: one iteration of the loop over the windows.  The
\* `continue` of a window whose process name is empty goes back to the top of
\* the loop without GetWindow(hwnd, GW_HWNDNEXT).
TitleScanStep ==
    /\ arg # None /\ hwnd # None /\ ret = None
    /\ LET w == arg[1].windows[hwnd[1]]
           titled == /\ w.visible
                     /\ Len(w.title) > 0
                     /\ title_matches(arg[1].cwd, w.title)
       IN  IF titled /\ w.proc_name = ""
           THEN UNCHANGED <<hwnd, ret>>
           ELSE IF titled /\ name_lower(w.proc_name) \in TERMINAL_PROCESSES
           THEN ret' = Some(Some(hwnd[1])) /\ hwnd' = hwnd
           ELSE IF hwnd[1] < Len(arg[1].windows)
           THEN hwnd' = Some(hwnd[1] + 1) /\ ret' = ret
           ELSE ret' = Some(None) /\ hwnd' = hwnd
    /\ UNCHANGED <<arg, notTitleScanVars>>

\* walk_to_terminal: `for level in 0..6`
WalkLevels == 6
MaxSnapshotPids == 3         \* processes of a snapshot with arbitrary parent links
ChainLen == 8                \* processes of a snapshot that is one chain of parents

\* ProcessSnapshot::get_parent_info; the snapshot maps a pid to its entry
\* (Toolhelp lists every pid once)
get_parent_info(snap, pid) ==
    IF pid \notin DOMAIN snap \/ snap[pid].parent \in {0, pid} THEN None
    ELSE LET parent_pid == snap[pid].parent
         IN  Some([pid |-> parent_pid,
                   name |-> IF parent_pid \in DOMAIN snap
                            THEN snap[parent_pid].name ELSE ""])

find_window_for_pid_hidden(windows, target_pid) ==
    IF target_pid \in DOMAIN windows THEN Some(target_pid) ELSE None

\* find_window_for_pid: the first visible window of the process that has a
\* title; windows maps a pid to its top-level window, whose handle is the pid
find_window_for_pid(windows, target_pid) ==
    IF /\ target_pid \in DOMAIN windows
       /\ windows[target_pid].visible
       /\ windows[target_pid].text_len > 0
    THEN Some(target_pid) ELSE None

RECURSIVE walk_from(_, _, _, _)
\* walk_to_terminal, the loop from one level on; lookups counts the calls of
\* get_parent_info
walk_from(snap, windows, current_pid, level) ==
    IF level >= WalkLevels THEN [found |-> None, lookups |-> 0]
    ELSE LET info == get_parent_info(snap, current_pid)
         IN  IF info = None THEN [found |-> None, lookups |-> 1]
             ELSE LET parent_pid == info[1].pid
                      parent_lower == name_lower(info[1].name)
                      win == IF parent_lower \in TERMINAL_PROCESSES
                             THEN find_window_for_pid(windows, parent_pid) ELSE None
                  IN  IF win # None
                      THEN [found |-> Some([hwnd |-> win[1],
                                            wt_tab |-> IF parent_lower \in {"windowsterminal.exe",
                                                                            "wt.exe"}
                                                       THEN Some(<<parent_pid, current_pid>>)
                                                       ELSE None]),
                            lookups |-> 1]
                      ELSE LET rest == walk_from(snap, windows, parent_pid, level + 1)
                           IN  [rest EXCEPT !.lookups = @ + 1]

\* walk_to_terminal
walk_to_terminal(snap, windows, pid) == walk_from(snap, windows, pid, 0)

ExeNames == {"node.exe", "Cmd.exe", "WindowsTerminal.exe"}

\* every snapshot of up to MaxSnapshotPids processes: parents may be absent
\* from the snapshot, be the process itself, be 0, or close a cycle
SmallSnapshots ==
    UNION {[d -> [parent : 0..(MaxSnapshotPids + 1), name : ExeNames]] :
              d \in SUBSET (1..MaxSnapshotPids)}

\* the chain 1 <- 2 <- ... <- ChainLen of parents (1 is the agent, the last
\* one's parent is 0), with terminals at one or two places
ChainSnapshots ==
    {[p \in 1..ChainLen |->
         [parent |-> IF p = ChainLen THEN 0 ELSE p + 1,
          name |-> IF p = t1 THEN n1 ELSE IF p = t2 THEN n2 ELSE "node.exe"]] :
       t1 \in 2..ChainLen, t2 \in 2..ChainLen, n1 \in ExeNames, n2 \in ExeNames}

\* the top-level windows: of some of the first processes
WindowMaps(pids) ==
    UNION {[d -> [visible : BOOLEAN, text_len : {0, 5}]] : d \in SUBSET pids}

\* the calls: a snapshot, the windows and the pid the walk starts from
WalkArgs ==
    [snapshot : SmallSnapshots, windows : WindowMaps(1..2), pid : 1..MaxSnapshotPids] \cup
    [snapshot : ChainSnapshots,
     windows : [{ChainLen - 1, ChainLen} -> [visible : BOOLEAN, text_len : {5}]],
     pid : {1, 2}]

\* find_and_focus_terminal_with_pid, strategy 1: walk_to_terminal(&snapshot, p)
WalkToTerminal ==
    /\ arg # None /\ ret = None
    /\ ret' = Some(walk_to_terminal(arg[1].snapshot, arg[1].windows, arg[1].pid))
    /\ UNCHANGED <<now, sessions, sse, arg, notFnVars>>

PermHandlerStep(id) ==
    \/ PermRegisterSender(id)
    \/ PermAnnounce(id)
    \/ PermTick(id)
    \/ PermReceive(id)
    \/ PermElapsed(id)
    \/ PermDropRx(id)
    \/ PermRemoveRequest(id)
    \/ PermRemoveSender(id)

RespHandlerStep(r) ==
    \/ RespRemoveRequest(r)
    \/ RespSend(r)
    \/ RespFinish(r)

InitPerm ==
    /\ now = 0
    /\ sessions = << >>
    /\ sse = << >>
    /\ InitPermVars
    /\ InitHookVars
    /\ InitEvVars
    /\ InitMergeVars
    /\ InitStartVars
    /\ InitFlushVars
    /\ InitStrmVars
    /\ InitRelayVars
    /\ InitFnVars
    /\ InitBootVars
    /\ InitScanVars
    /\ InitCdVars

NextPerm ==
    \/ \E id \in ReqIds, sid \in PermSessionIds, sugg \in Suggestions :
          PermRequest(id, sid, sugg)
    \/ \E id \in ReqIds : PermHandlerStep(id)
    \/ \E r \in RespIds, id \in ReqIds \cup {BogusId}, d \in PermissionDecisionKind :
          RespLookup(r, id, d)
    \/ \E r \in RespIds : RespHandlerStep(r)
    \/ \E id \in ReqIds : CountdownWake(id)
    \/ \E id \in ReqIds : CountdownBroadcast(id)

SpecPerm == InitPerm /\ [][NextPerm]_vars

\* a suspended handler is resumed, a running handler runs on, time passes
FairSpecPerm ==
    /\ SpecPerm
    /\ \A id \in ReqIds : WF_vars(PermHandlerStep(id))
    /\ \A r \in RespIds : WF_vars(RespHandlerStep(r))

InitHook ==
    /\ now = 0
    /\ sessions = << >>
    /\ sse = << >>
    /\ InitPermVars
    /\ InitHookVars
    /\ InitEvVars
    /\ InitMergeVars
    /\ InitStartVars
    /\ InitFlushVars
    /\ InitStrmVars
    /\ InitRelayVars
    /\ InitFnVars
    /\ InitBootVars
    /\ InitScanVars
    /\ InitCdVars

NextHook ==
    \/ \E c \in HookCallIds, sid \in HookSessionIds,
          ev \in {None} \cup {Some(e) : e \in HookEvents} : HookEnter(c, sid, ev)
    \/ \E c \in HookCallIds : HookDedup(c)
    \/ \E c \in HookCallIds : HookApply(c)
    \/ DedupSweep
    \/ HookTick

SpecHook == InitHook /\ [][NextHook]_vars

InitEvents ==
    /\ now = 0
    /\ sessions = << >>
    /\ sse = << >>
    /\ InitPermVars
    /\ InitHookVars
    /\ InitEvVars
    /\ InitMergeVars
    /\ InitStartVars
    /\ InitFlushVars
    /\ InitStrmVars
    /\ InitRelayVars
    /\ InitFnVars
    /\ InitBootVars
    /\ InitScanVars
    /\ InitCdVars

NextEvents ==
    \/ \E c \in SigIds, p \in SignalPayloads, short_id \in Rand6 :
          \* the first call's uuid is a1b2c3..., the second's is that or another
          (c = 1 => short_id = "a1b2c3") /\ SigEnter(c, p, short_id)
    \/ \E c \in SigIds : SigAppendFile(c)
    \/ \E c \in SigIds : SigPushCache(c)
    \/ \E c \in SigIds : SigBroadcast(c)
    \/ \E g \in {1} : RdrMeta(g, 0)
    \/ \E g \in {1} : RdrCheck(g)
    \/ \E g \in {1} : RdrReadFile(g)
    \/ \E g \in {1} : RdrStore(g)
    \/ \E g \in {1} : RdrReturn(g)
    \/ \E g \in {1} : RdrDone(g)
    \/ ClearAll
    \* the hourly compaction is followed here when it drops an event;
    \* SpecRestart follows every compaction
    \/ (Compact /\ cache'.events # cache.events)
    \/ EvTick

SpecEvents == InitEvents /\ [][NextEvents]_vars

NextReaders ==
    \/ \E p \in SignalPayloads : SigEnter(1, p, "a1b2c3")
    \/ SigAppendFile(1)
    \/ SigPushCache(1)
    \/ SigBroadcast(1)
    \/ \E g \in RdrIds : RdrMeta(g, 0)
    \/ \E g \in RdrIds : RdrCheck(g)
    \/ \E g \in RdrIds : RdrReadFile(g)
    \/ \E g \in RdrIds : RdrStore(g)
    \/ \E g \in RdrIds : RdrReturn(g)
    \/ \E g \in RdrIds : RdrDone(g)
    \/ ClearAll

\* overlapping GET /api/events calls against signals and a clear
SpecReaders == InitEvents /\ [][NextReaders]_vars

\* an event written to the log by an earlier run of the program
OldEvent == new_event([NoPayload EXCEPT !.event = "Stop", !.session_id = "S0"], 0, "0f0f0f", 0)

\* the program starts with a log file left by an earlier run: the cache is
\* empty until the first refresh
InitRestart ==
    /\ now = 0
    /\ sessions = << >>
    /\ sse = << >>
    /\ InitPermVars
    /\ InitHookVars
    /\ file = <<OldEvent>>
    /\ fmeta = meta_of(file, 0)
    /\ cache = [events |-> << >>, last_mtime |-> None, last_size |-> 0]
    /\ sig = [c \in SigIds |-> [pc |-> "idle", p |-> NoPayload, evt |-> NoEvent]]
    /\ rdr = [g \in RdrIds |-> IdleReader]
    /\ chg = "none"
    /\ InitMergeVars
    /\ InitStartVars
    /\ InitFlushVars
    /\ InitStrmVars
    /\ InitRelayVars
    /\ InitFnVars
    /\ InitBootVars
    /\ InitScanVars
    /\ InitCdVars

NextRestart ==
    \/ \E p \in SignalPayloads : SigEnter(1, p, "a1b2c3")
    \/ SigAppendFile(1)
    \/ SigPushCache(1)
    \/ SigBroadcast(1)
    \/ RdrMeta(1, 0)
    \/ RdrCheck(1)
    \/ RdrReadFile(1)
    \/ RdrStore(1)
    \/ RdrReturn(1)
    \/ RdrDone(1)
    \/ ClearAll
    \/ Compact
    \/ EvTick

SpecRestart == InitRestart /\ [][NextRestart]_vars

\* the payloads of the transition table: every event, with and without a
\* session id; a Notification with each type and message, a Stop with and
\* without a last assistant message
TablePayloads ==
    {p \in [event : {"SessionStart", "SessionEnd", "Stop", "Notification", "UserPrompt",
                     "PreTool", "PermissionRequest", "Unknown"},
            session_id : {"", "S1"}, cwd : {SignalCwd},
            notification_type : {"", "permission_prompt", "idle_prompt"},
            message : {"", "allow Bash?"}, last_assistant_message : {"", "done."}] :
        /\ p.event # "Notification" => p.notification_type = "" /\ p.message = ""
        /\ p.event # "Stop" => p.last_assistant_message = ""}

NextSignal ==
    \/ \E c \in SigIds, p \in TablePayloads : SigEnter(c, p, "a1b2c3")
    \/ \E c \in SigIds : SigAppendFile(c)
    \/ \E c \in SigIds : SigPushCache(c)
    \/ \E c \in SigIds : SigBroadcast(c)

\* /api/signal calls alone, over the whole transition table
SpecSignal == InitEvents /\ [][NextSignal]_vars

\* Stop signals of two sessions
AppendPayloads ==
    [event : {"Stop"}, session_id : {"S1", "S2"}, cwd : {SignalCwd},
     notification_type : {""}, message : {""}, last_assistant_message : {"done."}]

NextAppend ==
    \/ \E c \in SigIds, p \in AppendPayloads, short_id \in Rand6 : SigEnter(c, p, short_id)
    \/ \E c \in SigIds : SigAppendFile(c)
    \/ \E c \in SigIds : SigPushCache(c)
    \/ \E c \in SigIds : SigBroadcast(c)
    \/ EvTick

\* concurrent /api/signal calls of several sessions, with the clock
SpecAppend == InitEvents /\ [][NextAppend]_vars


\* SessionTracker::new: dirty starts as `cleaned`, true when the startup
\* cleanup demoted a session of the snapshot
InitFlush ==
    /\ now = 0
    /\ sse = << >>
    /\ InitPermVars
    /\ InitHookVars
    /\ InitEvVars
    /\ InitMergeVars
    /\ InitStartVars
    /\ \E cleaned \in BOOLEAN :
          /\ dirty = cleaned
          /\ mutations = (IF cleaned THEN 1 ELSE 0)
          /\ sessions = (IF cleaned THEN [sid \in {"S1"} |-> FreshInfo("Idle", <<"d">>, 0)]
                         ELSE << >>)
    /\ snapfile = None
    /\ fl = [f \in FlushIds |-> "idle"]
    /\ writes = 0
    /\ flushes = 0
    /\ seen = 0
    /\ InitStrmVars
    /\ InitRelayVars
    /\ InitFnVars
    /\ InitBootVars
    /\ InitScanVars
    /\ InitCdVars

NextFlush ==
    \/ \E sid \in FlushSessionIds : TrackerRegister(sid)
    \/ \E sid \in FlushSessionIds, st \in FlushStatuses : TrackerUpdate(sid, st)
    \/ \E sid \in FlushSessionIds : TrackerRemove(sid)
    \/ TrackerPurge
    \/ \E f \in FlushIds : FlushSwap(f)
    \/ \E f \in FlushIds : FlushWrite(f)
    \/ FlushTick

SpecFlush == InitFlush /\ [][NextFlush]_vars

NextFlushIO ==
    \/ NextFlush
    \/ \E f \in FlushIds : FlushWriteFails(f)

\* the tracker and its flushers on a disk whose writes may fail
SpecFlushIO == InitFlush /\ [][NextFlushIO]_vars

SessionInfos(statuses, cwds, times) ==
    {FreshInfo(st, cwd, t) : st \in statuses, cwd \in cwds, t \in times}

\* the maps from some of the ids to session infos
Trackers(ids, infos) == UNION {[d -> infos] : d \in SUBSET ids}

InitMerge ==
    /\ now = MergeNow
    /\ sessions \in Trackers(MergeSessionIds, SessionInfos(MergeStatuses, MergeCwds, MergeTimes))
    /\ sse = << >>
    /\ InitPermVars
    /\ InitHookVars
    /\ InitEvVars
    /\ LET scans == MergeScans
       IN  \E cwds \in scans :
              processes = [i \in DOMAIN cwds |-> [pid |-> 100 + i, cwd |-> cwds[i]]]
    /\ merged = None
    /\ status = None
    /\ InitStartVars
    /\ InitFlushVars
    /\ InitStrmVars
    /\ InitRelayVars
    /\ InitFnVars
    /\ InitBootVars
    /\ InitScanVars
    /\ InitCdVars

NextMerge ==
    \E order \in Orders(DOMAIN get_active(sessions, SessionTtlMs, now)) : ScanAndMerge(order)

SpecMerge == InitMerge /\ [][NextMerge]_vars

InitStatus ==
    /\ now = MergeNow
    /\ sessions = << >>
    /\ sse = << >>
    /\ InitPermVars
    /\ InitHookVars
    /\ InitEvVars
    /\ processes = << >>
    /\ \E sts \in StatusRows :
          merged = Some([i \in DOMAIN sts |->
                           [pid |-> 100 + i, session_id |-> SidNames[i],
                            status |-> sts[i], cwd |-> <<"d">>, phase |-> 1]])
    /\ status = None
    /\ InitStartVars
    /\ InitFlushVars
    /\ InitStrmVars
    /\ InitRelayVars
    /\ InitFnVars
    /\ InitBootVars
    /\ InitScanVars
    /\ InitCdVars

NextStatus == ComputeState

\* compute_state over every merged list of the bound
SpecStatus == InitStatus /\ [][NextStatus]_vars

InitStream ==
    /\ now = 0
    /\ sessions = << >>
    /\ sse = << >>
    /\ InitPermVars
    /\ InitHookVars
    /\ InitEvVars
    /\ InitMergeVars
    /\ InitStartVars
    /\ InitFlushVars
    /\ InitStrmVars
    /\ InitRelayVars
    /\ InitFnVars
    /\ InitBootVars
    /\ InitScanVars
    /\ InitCdVars

NextStream ==
    \/ \E t \in SseTypes : SseBroadcast(t)
    \/ \E u \in SubIds : Subscribe(u)
    \/ \E u \in SubIds : StreamPoll(u)
    \/ \E u \in SubIds : Unsubscribe(u)

\* producers and /api/stream subscribers of the broadcaster
SpecStream == InitStream /\ [][NextStream]_vars

NextRelay ==
    \/ \E h \in HookProcIds, inp \in RelayInputs : HookStart(h, inp)
    \/ DaemonForward
    \/ ServerRespond
    \/ \E h \in HookProcIds : ReadTimeout(h)
    \/ \E h \in HookProcIds : SendDirect(h)
    \/ RelayTick

\* hook processes, the hook daemon and the server's intake of their POSTs
SpecRelay == InitStream /\ [][NextRelay]_vars

\* every variable but the arguments and the result of a followed call
InitRest ==
    /\ now = 0
    /\ sessions = << >>
    /\ sse = << >>
    /\ InitPermVars
    /\ InitHookVars
    /\ InitEvVars
    /\ InitMergeVars
    /\ InitStartVars
    /\ InitFlushVars
    /\ InitStrmVars
    /\ InitRelayVars
    /\ InitBootVars
    /\ InitScanVars
    /\ InitCdVars

InitRoute ==
    /\ InitRest
    /\ \E event \in EventArgs, stdin \in StdinValues,
          upstream \in {None} \cup {Some(b) : b \in ServerBodies} :
          arg = Some([event |-> event, stdin |-> stdin, upstream |-> upstream])
    /\ ret = Some([relay |-> None, direct |-> None])

NextRoute == RunRelay \/ RunDirect

\* one hook payload, sent once through the daemon and once directly
SpecRoute == InitRoute /\ [][NextRoute]_vars

\* the machine as run() can find it: the files in any state, the port free
\* or held by a running instance, a daemon of a previous run alive or not
InitBoot ==
    /\ now = 0
    /\ sessions = << >>
    /\ sse = << >>
    /\ InitPermVars
    /\ InitHookVars
    /\ InitEvVars
    /\ InitMergeVars
    /\ InitStartVars
    /\ InitFlushVars
    /\ InitStrmVars
    /\ InitRelayVars
    /\ InitFnVars
    /\ InitScanVars
    /\ InitCdVars
    /\ \E hb \in BOOLEAN : boot = [pc |-> "start", hook_binary |-> hb, effects |-> {}]
    /\ \E c \in ConfigStates, s \in SettingsStates : fsys = [config |-> c, settings |-> s]
    /\ \E busy \in BOOLEAN, orphan \in BOOLEAN :
          /\ ports = [main |-> IF busy THEN "other" ELSE "free",
                      daemon |-> IF orphan THEN Some(OrphanPid) ELSE None]
          /\ dprocs = IF orphan
                      THEN [p \in {OrphanPid} |-> [origin |-> "orphan", st |-> "listening"]]
                      ELSE << >>

NextBoot ==
    \/ InitLogging
    \/ LoadConfig
    \/ EnsureHooks
    \/ GuardCheck
    \/ StartServer
    \/ SpawnDaemon
    \/ \E p \in {OrphanPid, OwnPid} : DaemonBind(p)

\* one start of the main process
SpecBoot == InitBoot /\ [][NextBoot]_vars

NextDecode ==
    \/ NextHook
    \/ \E r \in JsonRoutes, body \in RequestBodies : PostRejected(r, body)

\* /api/hook calls and requests with undecodable bodies at the five routes
SpecDecode == InitHook /\ [][NextDecode]_vars

InitTitleScan ==
    /\ InitRest
    /\ \E cwd \in ScanCwds, windows \in WindowLists :
          arg = Some([cwd |-> cwd, windows |-> windows])
    /\ ret = None

NextTitleScan == TitleScanStart \/ TitleScanStep

\* one call of find_terminal_by_title
SpecTitleScan == InitTitleScan /\ [][NextTitleScan]_vars

\* the thread that runs the scan runs on
FairSpecTitleScan ==
    /\ SpecTitleScan
    /\ WF_vars(TitleScanStart)
    /\ WF_vars(TitleScanStep)

InitWalk ==
    /\ InitRest
    /\ \E a \in WalkArgs : arg = Some(a)
    /\ ret = None

NextWalk == WalkToTerminal

\* one call of walk_to_terminal
SpecWalk == InitWalk /\ [][NextWalk]_vars

\* permission requests of two sessions
PermRelayInputs ==
    {[sid |-> "S1", event |-> "permission_request"],
     [sid |-> "S2", event |-> "permission_request"]}

NextRelayPerm ==
    \/ \E h \in HookProcIds, inp \in RelayInputs \cup PermRelayInputs : HookStart(h, inp)
    \/ DaemonForward
    \/ ServerRespond
    \/ \E h \in HookProcIds : ReadTimeout(h)
    \/ \E h \in HookProcIds : SendDirect(h)
    \/ RelayTick

\* the hook processes and the daemon, with permission requests of two
\* sessions
SpecRelayPerm == InitStream /\ [][NextRelayPerm]_vars

\* the daemon runs on; nobody is obliged to decide a permission request
FairSpecRelayPerm == SpecRelayPerm /\ WF_vars(DaemonForward)

InitStartup ==
    /\ now = StartNow
    /\ sessions = << >>
    /\ sse = << >>
    /\ InitPermVars
    /\ InitHookVars
    /\ InitEvVars
    /\ InitMergeVars
    /\ snapshot \in Trackers(StartSessionIds,
                             SessionInfos(SessionStatus, {<<"d">>}, StartTimes))
    /\ started = FALSE
    /\ InitFlushVars
    /\ InitStrmVars
    /\ InitRelayVars
    /\ InitFnVars
    /\ InitBootVars
    /\ InitScanVars
    /\ InitCdVars

NextStartup == Startup

SpecStartup == InitStartup /\ [][NextStartup]_vars

(***************************************************************************)
(* Claims about the permission gate.                                       *)
(***************************************************************************)
TimedOut(id) == perm[id].pc = "done" /\ perm[id].outcome = "timeout"
Decided(id) == perm[id].pc = "done" /\ perm[id].outcome = "decided"

\* C1: a handler that returns on timeout waited for the whole
\* permission_timeout_secs, returns behavior "deny" with updatedPermissions
\* [], and from its return on its id is in neither the pending list nor the
\* senders map.
C1_TimeoutDeniesAndCleans ==
    \A id \in ReqIds :
        TimedOut(id) =>
            /\ perm[id].waited >= PermissionTimeoutMs
            /\ perm[id].response.behavior = "deny"
            /\ perm[id].response.updatedPermissions = <<>>
            /\ id \notin DOMAIN requests
            /\ id \notin senders

C1_Witness ==
    \E id \in ReqIds : TimedOut(id) /\ perm[id].response.behavior = "deny"

\* the accepted respond call whose decision the handler of id received
Deliverer(id) ==
    {r \in RespIds : resp[r].id = id /\ resp[r].ok /\ resp[r].decision = perm[id].decision}

\* C2 as stated: the handler that received decision d answers "approve" for
\* Allow and AlwaysAllow and "deny" for Deny, and updatedPermissions equals
\* the request's permission_suggestions if and only if d is AlwaysAllow
\* (and is [] otherwise).
C2_Original ==
    \A id \in ReqIds :
        Decided(id) =>
            /\ Deliverer(id) # {}
            /\ perm[id].response.behavior =
                  (IF perm[id].decision = "Deny" THEN "deny" ELSE "approve")
            /\ (perm[id].response.updatedPermissions = perm[id].sugg)
                  <=> (perm[id].decision = "AlwaysAllow")
            /\ perm[id].decision # "AlwaysAllow"
                  => perm[id].response.updatedPermissions = <<>>

\* C2 amended: the handler that received decision d answers "approve" for
\* Allow and AlwaysAllow and "deny" for Deny; updatedPermissions is the
\* request's permission_suggestions when d is AlwaysAllow and [] otherwise
\* (so for Allow and Deny it equals the suggestions when those are empty).
C2_DecisionMapping ==
    \A id \in ReqIds :
        Decided(id) =>
            /\ Deliverer(id) # {}
            /\ perm[id].response.behavior =
                  (IF perm[id].decision = "Deny" THEN "deny" ELSE "approve")
            /\ perm[id].decision = "AlwaysAllow"
                  => perm[id].response.updatedPermissions = perm[id].sugg
            /\ perm[id].decision # "AlwaysAllow"
                  => perm[id].response.updatedPermissions = <<>>

C2_Witness ==
    \E id \in ReqIds :
        /\ Decided(id)
        /\ perm[id].decision = "AlwaysAllow"
        /\ perm[id].sugg # <<>>
        /\ perm[id].response.updatedPermissions = perm[id].sugg

\* C3 as stated: in every reachable state the ids of the pending-requests
\* map are exactly the ids of the senders map.
C3_Original == DOMAIN requests = senders

\* C4: once a handler has returned its request is not pending, and every
\* request in the pending list is eventually out of it.
C4_EventuallyRemoved ==
    /\ [](\A id \in ReqIds : perm[id].pc = "done" => id \notin DOMAIN requests)
    /\ \A id \in ReqIds : (id \in DOMAIN requests) ~> (id \notin DOMAIN requests)

C4_Witness ==
    \E r \in RespIds :
        /\ resp[r].pc = "done"
        /\ resp[r].sid # None
        /\ resp[r].id \notin DOMAIN requests

\* C5 as stated: a respond call that is accepted leaves the session named by
\* the request Active (allow, always_allow) or Waiting (deny), broadcasts
\* activity{event=permission_resolved} and leaves the id out of the pending
\* list; a respond call for an id that is not pending returns ok=false; a
\* call that returns ok=false changes no session.
C5_Original ==
    [][\A r \in RespIds :
          (resp[r].pc = "sent" /\ resp'[r].pc = "done") =>
             /\ resp[r].ok =>
                  /\ resp[r].id \in ReqIds
                  /\ perm[resp[r].id].session_id \in DOMAIN sessions'
                  /\ sessions'[perm[resp[r].id].session_id].status =
                        (IF resp[r].decision = "Deny" THEN "Waiting" ELSE "Active")
                  /\ Len(sse') = Len(sse) + 1
                  /\ sse'[Len(sse')].type = "activity"
                  /\ sse'[Len(sse')].event = "permission_resolved"
                  /\ resp[r].id \notin DOMAIN requests'
             /\ resp[r].sid = None => ~resp[r].ok
             /\ ~resp[r].ok => sessions' = sessions]_vars

(***************************************************************************)
(* Claims about /api/hook.                                                 *)
(***************************************************************************)
Processed(c) == hook[c].pc \in {"passed", "done"} /\ ~hook[c].result.dedup
SamePair(a, b) ==
    /\ a # b
    /\ hook[a].ev # None
    /\ hook[a].ev = hook[b].ev
    /\ hook[a].sid = hook[b].sid
Apart(a, b) ==
    \/ hook[a].at - hook[b].at >= DedupWindowMs
    \/ hook[b].at - hook[a].at >= DedupWindowMs

\* every step of a call that is answered {ok:true, dedup:true} leaves the
\* session tracker and the broadcast channel as they were
DedupedCallsAreInert ==
    \A c \in HookCallIds :
        (hook'[c].result.dedup /\ hook'[c] # hook[c]) =>
            /\ hook'[c].result.ok
            /\ sessions' = sessions
            /\ sse' = sse

RECURSIVE CountOf(_, _)
\* the number of entries of a list of events built by call c
CountOf(es, c) ==
    IF es = <<>> THEN 0
    ELSE (IF Head(es).call = c THEN 1 ELSE 0) + CountOf(Tail(es), c)

\* the event of call c is too old for compact to keep
Aged(c) == ~ compact_keep(sig[c].evt.ts, now)

\* C7 (as stated): once an /api/signal call has returned, the cache that
\* get_events serves and the JSONL file each hold exactly one entry for its
\* event, unless compact may have removed it by age, and then at most one.
C7_Original ==
    \A c \in SigIds :
        sig[c].pc = "done" =>
            /\ CountOf(cache.events, c) <= 1
            /\ CountOf(file, c) <= 1
            /\ ~ Aged(c) => CountOf(cache.events, c) = 1 /\ CountOf(file, c) = 1

\* C8 (as stated): no two entries of the event log, in the cache or in the
\* file, share an id.
C8_Original ==
    /\ \A i, j \in 1..Len(cache.events) : i # j => cache.events[i].id # cache.events[j].id
    /\ \A i, j \in 1..Len(file) : i # j => file[i].id # file[j].id

(***************************************************************************)
(* Claims about reconciliation and startup.                                *)
(***************************************************************************)
\* the sessions scan_and_merge read
Tracked == get_active(sessions, SessionTtlMs, now)

\* the row pairs a cached process with a tracked session that has not ended,
\* and a row of the CWD phase pairs equal, non-empty normalised cwds
PairedRow(row) ==
    /\ row.session_id \in DOMAIN Tracked
    /\ Tracked[row.session_id].status # "Ended"
    /\ \E i \in DOMAIN processes :
          /\ processes[i].pid = row.pid
          /\ row.phase = 1 =>
                /\ normalize_cwd(processes[i].cwd) # <<>>
                /\ normalize_cwd(processes[i].cwd)
                     = normalize_cwd(Tracked[row.session_id].cwd)

\* C9: in the list scan_and_merge returns no row belongs to an Ended session,
\* every row pairs one cached process with one tracked session, and no
\* process and no session is in two rows; so a session without a process and
\* a process without a session give no row.
C9_MergedRowsArePairs ==
    merged # None =>
        LET rows == merged[1]
        IN  /\ \A i \in DOMAIN rows : PairedRow(rows[i])
            /\ \A i, j \in DOMAIN rows :
                  i # j => /\ rows[i].pid # rows[j].pid
                           /\ rows[i].session_id # rows[j].session_id
            /\ Len(rows) <= Len(processes)
            /\ Len(rows) <= Cardinality({sid \in DOMAIN Tracked :
                                            Tracked[sid].status # "Ended"})

\* a merge of two processes with one live session and one Ended session: one
\* Phase-2 row, one process left without a row
C9_Witness ==
    /\ merged # None
    /\ Len(processes) = 2
    /\ Len(merged[1]) = 1
    /\ merged[1][1].phase = 2
    /\ \E sid \in DOMAIN Tracked : Tracked[sid].status = "Ended"

\* C10: after SessionTracker::new every session of the snapshot that was
\* Active, Waiting or Stopped and was updated more than 300 s before now is
\* Idle with its updated_at unchanged, and every other session is as it was
\* in the snapshot.
C10_StartupDemotion ==
    started =>
        /\ DOMAIN sessions = DOMAIN snapshot
        /\ \A sid \in DOMAIN snapshot :
              LET old == snapshot[sid]
                  new == sessions[sid]
              IN  /\ new.updated_at = old.updated_at
                  /\ IF /\ old.status \in {"Active", "Waiting", "Stopped"}
                        /\ now - old.updated_at > 300000
                     THEN new = [old EXCEPT !.status = "Idle"]
                     ELSE new = old

\* a startup that demoted one session and kept an Active one that is exactly
\* 300 s old
C10_Witness ==
    /\ started
    /\ \E a, b \in DOMAIN snapshot :
          /\ snapshot[a].status = "Waiting"
          /\ sessions[a].status = "Idle"
          /\ snapshot[b].status = "Active"
          /\ now - snapshot[b].updated_at = 300000
          /\ sessions[b].status = "Active"

(***************************************************************************)
(* Claims about the session transition table.                              *)
(***************************************************************************)
\* call c of /api/signal takes its session step, for a non-empty session id
SignalSteps(c) ==
    /\ sig[c].pc = "idle"
    /\ sig'[c].pc = "built"
    /\ sig'[c].p.session_id # ""

\* the value of a field of a session before the step, None if it is new
OldField(sid, f) == IF sid \in DOMAIN sessions THEN sessions[sid][f] ELSE None

\* a field as the API shows it: as_deref().unwrap_or("")
Shown(o) == IF o = None THEN "" ELSE o[1]

\* a notification field that reads as the empty string
Cleared(o) == Shown(o) = ""

\* C11 (as stated): after the session step of /api/signal the status follows
\* the table, Stop stores the payload's last_assistant_message as last_message
\* and Notification{permission_prompt} sets both notification fields from the
\* payload.
C11_Original ==
    [][\A c \in SigIds :
          SignalSteps(c) =>
             LET p == sig'[c].p
                 after == sessions'[p.session_id]
             IN  /\ p.event = "SessionStart" => after.status = "Idle"
                 /\ p.event = "SessionEnd" => after.status = "Ended"
                 /\ p.event = "Stop" =>
                       /\ after.status = "Waiting"
                       /\ Shown(after.last_message) = p.last_assistant_message
                       /\ Cleared(after.notification_type)
                       /\ Cleared(after.notification_message)
                 /\ p.event = "Notification" =>
                       IF p.notification_type = "permission_prompt"
                       THEN /\ after.status = "Waiting"
                            /\ Shown(after.notification_type) = p.notification_type
                            /\ Shown(after.notification_message) = p.message
                       ELSE after.status = "Idle"]_vars

\* C11 (amended): the status follows the table; Stop clears the notification
\* fields and replaces last_message only by a non-empty last_assistant_message;
\* Notification{permission_prompt} sets notification_type and replaces
\* notification_message only by a non-empty message; an empty one leaves the
\* previous value.
C11_TransitionTable ==
    [][\A c \in SigIds :
          SignalSteps(c) =>
             LET p == sig'[c].p
                 sid == p.session_id
                 after == sessions'[sid]
             IN  /\ p.event = "SessionStart" => after.status = "Idle"
                 /\ p.event = "SessionEnd" => after.status = "Ended"
                 /\ p.event = "Stop" =>
                       /\ after.status = "Waiting"
                       /\ after.last_message =
                             (IF p.last_assistant_message = ""
                              THEN OldField(sid, "last_message")
                              ELSE Some(p.last_assistant_message))
                       /\ after.notification_type = Some("")
                       /\ after.notification_message = Some("")
                 /\ p.event = "Notification" =>
                       /\ after.status = (IF p.notification_type = "permission_prompt"
                                          THEN "Waiting" ELSE "Idle")
                       /\ after.notification_type =
                             (IF p.notification_type = ""
                              THEN OldField(sid, "notification_type")
                              ELSE Some(p.notification_type))
                       /\ after.notification_message =
                             (IF p.message = ""
                              THEN OldField(sid, "notification_message")
                              ELSE Some(p.message))]_vars

\* a Stop without a last assistant message after a Stop with one: the session
\* is Waiting and keeps the earlier message
C11_Witness ==
    /\ sig[1].pc # "idle" /\ sig[1].p.event = "Stop"
    /\ sig[1].p.last_assistant_message = "done."
    /\ sig[2].pc # "idle" /\ sig[2].p.event = "Stop"
    /\ sig[2].p.last_assistant_message = ""
    /\ sig[1].p.session_id = "S1" /\ sig[2].p.session_id = "S1"
    /\ sessions["S1"].status = "Waiting"
    /\ sessions["S1"].last_message = Some("done.")

\* C12 (as stated), the /api/signal half: a UserPrompt or PreTool signal for a
\* non-empty session id leaves the session Active with its notification
\* fields cleared.
C12_Original ==
    [][\A c \in SigIds :
          (SignalSteps(c) /\ sig'[c].p.event \in {"UserPrompt", "PreTool"}) =>
             /\ sig'[c].p.session_id \in DOMAIN sessions'
             /\ sessions'[sig'[c].p.session_id].status = "Active"
             /\ Cleared(sessions'[sig'[c].p.session_id].notification_type)
             /\ Cleared(sessions'[sig'[c].p.session_id].notification_message)]_vars

(***************************************************************************)
(* Claims about the session tracker's snapshot.                            *)
(***************************************************************************)
\* the flush_if_dirty calls that have taken the flag and still have to write
PendingWrites == Cardinality({f \in FlushIds : fl[f] = "swapped"})

\* C13: flush_if_dirty writes at most once per dirty transition: the writes
\* done or under way never outnumber the register/update/remove/purge calls,
\* and a flush_if_dirty call goes on to write only if one of those calls was
\* made since the previous flush_if_dirty call, so of two consecutive calls
\* with none in between the second performs no write.
C13_FlushOncePerDirty ==
    /\ [](writes + PendingWrites <= mutations)
    /\ [][\A f \in FlushIds :
             (fl[f] = "idle" /\ fl'[f] = "swapped") => mutations > seen]_vars

\* two flush_if_dirty calls after one mutation: one write
C13_Witness ==
    /\ mutations = 1
    /\ flushes = 2
    /\ writes = 1
    /\ PendingWrites = 0
    /\ snapfile = Some(sessions)

(***************************************************************************)
(* Claims about reading, clearing and compacting the event log.            *)
(***************************************************************************)
\* no api_signal call is between its file write and its cache push
NoAppendInFlight == \A c \in SigIds : sig[c].pc # "written"

\* the store's latest change is a clear_all that has returned, and every
\* append made before it is complete
ClearedAndQuiet == chg = "clear" /\ NoAppendInFlight

\* C14 (as stated): after clear_all has returned, with no append since, a
\* get_events(0) call that started after it returns the empty list, and the
\* file holds only entries with cleared = true.
C14_Original ==
    ClearedAndQuiet =>
        /\ \A i \in DOMAIN file : file[i].cleared
        /\ \A g \in RdrIds :
              (rdr[g].pc = "returned" /\ rdr[g].clean /\ rdr[g].after = 0)
                 => rdr[g].result = << >>

\* C15 (as stated): get_events(after) returns exactly the uncleared events of
\* the cache with ts > after, in order (all uncleared ones when after <= 0),
\* never a cleared one, and two calls with the same argument that both ran
\* with no append, clear or compact since they started return the same list.
C15_Original ==
    /\ [][\A g \in RdrIds :
             (rdr[g].pc = "fresh" /\ rdr'[g].pc = "returned") =>
                LET kept == {i \in DOMAIN cache.events :
                                /\ ~ cache.events[i].cleared
                                /\ rdr[g].after > 0 => cache.events[i].ts > rdr[g].after}
                    res == rdr'[g].result
                IN  /\ Len(res) = Cardinality(kept)
                    /\ \A i \in kept :
                          res[Cardinality({j \in kept : j <= i})] = cache.events[i]]_vars
    /\ [](\A g \in RdrIds :
             rdr[g].pc = "returned" => \A i \in DOMAIN rdr[g].result :
                                          ~ rdr[g].result[i].cleared)
    /\ [](\A g, h \in RdrIds :
             (/\ rdr[g].pc = "returned" /\ rdr[h].pc = "returned"
              /\ rdr[g].clean /\ rdr[h].clean /\ NoAppendInFlight
              /\ rdr[g].after = rdr[h].after)
                => rdr[g].result = rdr[h].result)

\* the events of a log that compact keeps at time t, in order
RECURSIVE WithinMaxAge(_, _)
WithinMaxAge(es, t) ==
    IF es = <<>> THEN <<>>
    ELSE (IF Head(es).ts >= t - MaxEventsAgeMs THEN <<Head(es)>> ELSE <<>>)
         \o WithinMaxAge(Tail(es), t)

\* C16 (as stated): after compact the file and the cache both hold exactly
\* the events that the log file held before the call and that are within
\* max_age, in their previous order.
C16_Original ==
    [][Compact => /\ file' = WithinMaxAge(file, now)
                  /\ cache'.events = WithinMaxAge(file, now)]_vars

\* a log in which no event is stamped later than an event that follows it
MonotoneTs(es) == \A i, j \in DOMAIN es : i < j => es[i].ts <= es[j].ts

\* C17 (as stated): in every reachable state the cache and the file list
\* their events by non-decreasing ts, also when /api/signal calls of different
\* sessions run concurrently.
C17_Original == MonotoneTs(cache.events) /\ MonotoneTs(file)


\* the rows of the merged list whose status is st
RowsWith(st) == {i \in DOMAIN merged[1] : merged[1][i].status = st}

\* C18: compute_state gives an answer for every merged list; its state is
\* "sleeping" exactly when the list is empty, otherwise "attention" if a row
\* is "waiting", otherwise "thinking" if a row is "active", otherwise "done";
\* active_processes is the length of the list and pending_actions the number
\* of "waiting" rows.
C18_ComputeState ==
    /\ []((merged # None /\ status = None) => ENABLED ComputeState)
    /\ [](status # None =>
          LET rows == merged[1]
              out == status[1]
          IN  /\ out.state \in {"sleeping", "attention", "thinking", "done"}
              /\ out.state = "sleeping" <=> rows = << >>
              /\ rows # << >> =>
                    /\ out.state = "attention" <=> RowsWith("waiting") # {}
                    /\ out.state = "thinking" <=>
                          (RowsWith("waiting") = {} /\ RowsWith("active") # {})
                    /\ out.state = "done" <=>
                          (RowsWith("waiting") = {} /\ RowsWith("active") = {})
              /\ out.active_processes = Len(rows)
              /\ out.pending_actions = Cardinality(RowsWith("waiting")))

\* the summary of a list with an active row before a waiting row, and a
\* stopped one: attention, three processes, one pending action
C18_Witness ==
    /\ status # None
    /\ Len(merged[1]) = 3
    /\ merged[1][1].status = "active"
    /\ merged[1][2].status = "waiting"
    /\ merged[1][3].status = "stopped"
    /\ status[1] = [state |-> "attention", active_processes |-> 3, pending_actions |-> 1]

(***************************************************************************)
(* Claims about the broadcaster and the hook relay.                        *)
(***************************************************************************)
\* the positions subscriber u was entitled to and has passed without
\* receiving them
Lost(u) == {q \in sub[u].start .. (sub[u].next - 1) :
               \A i \in DOMAIN sub[u].got : sub[u].got[i] # q}

\* C19: broadcast can always be taken, however far behind a subscriber is;
\* a poll of a subscriber that is more than the channel capacity behind
\* loses frames and leaves it subscribed, the frames lost are the oldest
\* (each has at least capacity later frames), only the client ends a
\* subscription, and a subscriber with a frame still kept can receive it;
\* frames are received in the order sent.
C19_LagSafety ==
    /\ [](\A t \in SseTypes : Len(sse) < MaxFrames => ENABLED SseBroadcast(t))
    /\ [][\A u \in SubIds :
             (sub[u].st = "open" /\ sub'[u].st # "open") => Unsubscribe(u)]_vars
    /\ [][\A u \in SubIds :
             StreamPoll(u) =>
                /\ sub'[u].st = "open"
                /\ (Len(sse) - sub[u].next + 1 > CHANNEL_CAPACITY)
                      <=> (sub'[u].lagged > sub[u].lagged)]_vars
    /\ [](\A u \in SubIds :
             sub[u].st = "open" =>
                /\ sub[u].next <= Len(sse) => ENABLED StreamPoll(u)
                /\ \A i, j \in DOMAIN sub[u].got :
                      i < j => sub[u].got[i] < sub[u].got[j]
                /\ \A i \in DOMAIN sub[u].got :
                      sub[u].got[i] \in sub[u].start .. Len(sse)
                /\ Cardinality(Lost(u)) = sub[u].lagged
                /\ \A q \in Lost(u) : q + CHANNEL_CAPACITY <= Len(sse))

\* a subscriber that stalled for more than the capacity, lost frames, and
\* has since received the latest frame
C19_Witness ==
    \E u \in SubIds :
        /\ sub[u].st = "open"
        /\ sub[u].lagged > 0
        /\ sub[u].got # << >>
        /\ sub[u].got[Len(sub[u].got)] = Len(sse)
        /\ Len(sse) > CHANNEL_CAPACITY

\* C20 (as stated): when hook process a of a session had exited before
\* process b of the same session started, the server handles no POST of a
\* after a POST of b.
C20_Original ==
    \A a, b \in HookProcIds :
        (a \in hp[b].after /\ hp[a].sid = hp[b].sid) =>
            \A i, j \in DOMAIN posts :
                (posts[i].h = b /\ posts[j].h = a) => j < i

(***************************************************************************)
(* Claims about the hook client and its daemon.                            *)
(***************************************************************************)
\* the run has gone both ways
BothRan == ret # None /\ ret[1].relay # None /\ ret[1].direct # None

\* C21 (as stated): for every event name the daemon and the direct fallback
\* send the same request: the same endpoint, query and body.
C21_Original ==
    (arg # None /\ BothRan) => ret[1].relay[1].request = ret[1].direct[1].request

\* the server bodies that carry a decision for the agent
DecisionBodies == {"{\"decision\":\"allow\"}", "{\"decision\":\"deny\"}"}

C23_Original ==
    /\ Cardinality({p \in DOMAIN dprocs : dprocs[p].st = "listening"}) <= 1
    /\ (/\ boot.pc = "spawned"
        /\ boot.hook_binary
        /\ \A p \in DOMAIN dprocs : dprocs[p].st # "starting")
          => /\ ports.daemon = Some(OwnPid)
             /\ OrphanPid \notin DOMAIN dprocs

\* C24 (as stated): when the guard finds the port taken, run() has exited
\* having written no config or settings file, spawned no daemon and bound no
\* listener.
C24_Original ==
    boot.pc = "exited" =>
        boot.effects \cap {"config", "settings", "snapshot", "events", "daemon",
                           "listener"} = {}

\* the tracker has been changed and the sessions file does not hold its
\* sessions
Unsaved == mutations > 0 /\ snapfile # Some(sessions)

\* C25 (as stated): a failed snapshot write is retried by the next
\* flush_if_dirty call without a further mutation: while the file does not
\* hold the tracker's sessions, the tracker is still dirty or a flush is
\* about to write.
C25_Original ==
    Unsaved => (dirty \/ \E f \in FlushIds : fl[f] = "swapped")

\* C26 (as stated): a request whose JSON body fails to decode at /api/hook,
\* /api/signal, /api/permission-request, /api/permission-respond or /api/focus
\* is answered with HTTP 200 and {"ok":false,"error":...}, never with a 4xx
\* status.
C26_Original ==
    ret # None =>
        /\ ret[1].status = 200
        /\ ret[1].body = "{\"ok\":false,\"error\":...}"

\* the rows of the CWD phase, and the row of one process in it
Phase1Rows == {i \in DOMAIN merged[1] : merged[1][i].phase = 1}
Phase1RowOf(pid) == {i \in Phase1Rows : merged[1][i].pid = pid}

\* the tracked sessions a process can be matched to in the CWD phase: not
\* Ended, the same non-empty normalised cwd, and not in the row of a process
\* earlier in the cache
Phase1Candidates(k) ==
    LET taken == {merged[1][i].session_id :
                     i \in {j \in Phase1Rows : merged[1][j].pid < processes[k].pid}}
    IN  {sid \in DOMAIN Tracked :
            /\ Tracked[sid].status # "Ended"
            /\ normalize_cwd(processes[k].cwd) # <<>>
            /\ normalize_cwd(Tracked[sid].cwd) = normalize_cwd(processes[k].cwd)
            /\ sid \notin taken}

\* C27: in Phase 1 of scan_and_merge each process, in cache order, is matched
\* to the not yet matched non-Ended tracked session of the same normalised cwd
\* (never the empty one) with the greatest updated_at, a process without such
\* a session gets no Phase-1 row, and no session is matched to two processes.
C27_Phase1 ==
    merged # None =>
        /\ \A k \in DOMAIN processes :
              LET cands == Phase1Candidates(k)
                  rows == Phase1RowOf(processes[k].pid)
              IN  IF cands = {} THEN rows = {}
                  ELSE /\ Cardinality(rows) = 1
                       /\ \A i \in rows :
                             /\ merged[1][i].session_id \in cands
                             /\ \A c \in cands :
                                   Tracked[c].updated_at
                                      <= Tracked[merged[1][i].session_id].updated_at
        /\ \A i, j \in Phase1Rows :
              /\ i < j => merged[1][i].pid < merged[1][j].pid
              /\ i # j => merged[1][i].session_id # merged[1][j].session_id

\* two processes in one directory, spelled differently, and two live sessions
\* of that directory with different updated_at: the first process has the
\* more recently updated session, the second the other one
C27_Witness ==
    /\ merged # None
    /\ Len(processes) = 2
    /\ processes[1].cwd # processes[2].cwd
    /\ Len(merged[1]) = 2
    /\ merged[1][1].phase = 1 /\ merged[1][2].phase = 1
    /\ merged[1][1].pid = processes[1].pid
    /\ Tracked[merged[1][1].session_id].updated_at
          > Tracked[merged[1][2].session_id].updated_at

\* the rows of the fallback phase, in the order of the list
Phase2Rows == SelectSeq(merged[1], LAMBDA row : row.phase = 2)

\* the cached processes Phase 1 left without a row, in cache order
Phase1Unmatched == SelectSeq(processes, LAMBDA proc : Phase1RowOf(proc.pid) = {})

\* the tracked sessions Phase 1 left without a row that have not ended
Phase1Left ==
    {sid \in DOMAIN Tracked :
        /\ Tracked[sid].status # "Ended"
        /\ \A i \in Phase1Rows : merged[1][i].session_id # sid}

C29_Original == <>(ret # None)

RECURSIVE Ancestor(_)
\* the k-th process up the parent links of the snapshot from the start pid,
\* 0 when the links end before it (no entry, parent 0, or its own parent)
Ancestor(k) ==
    IF k = 0 THEN arg[1].pid
    ELSE LET c == Ancestor(k - 1)
             s == arg[1].snapshot
         IN  IF c = 0 \/ c \notin DOMAIN s \/ s[c].parent \in {0, c} THEN 0
             ELSE s[c].parent

\* the k-th ancestor is a known terminal that owns a visible titled window
TerminalAt(k) ==
    LET a == Ancestor(k)
    IN  /\ a # 0 /\ a \in DOMAIN arg[1].snapshot
        /\ name_lower(arg[1].snapshot[a].name) \in TERMINAL_PROCESSES
        /\ a \in DOMAIN arg[1].windows
        /\ arg[1].windows[a].visible /\ arg[1].windows[a].text_len > 0

\* C30: walk_to_terminal makes at most 6 parent lookups and returns, also on
\* cyclic and dangling parent links; its result is the nearest of the first 6
\* ancestors that is a known terminal owning a visible titled window (none if
\* there is none), and wt_tab is (that ancestor, its child on the walk) exactly
\* when the ancestor is windowsterminal.exe or wt.exe.
C30_WalkToTerminal ==
    (arg # None /\ ret # None /\ "snapshot" \in DOMAIN arg[1]) =>
        /\ ret[1].lookups <= 6
        /\ IF \E k \in 1..6 : TerminalAt(k)
           THEN LET k == CHOOSE n \in 1..6 :
                            TerminalAt(n) /\ \A m \in 1..(n - 1) : ~ TerminalAt(m)
                    wt == name_lower(arg[1].snapshot[Ancestor(k)].name)
                             \in {"windowsterminal.exe", "wt.exe"}
                IN  /\ ret[1].found # None
                    /\ ret[1].found[1].hwnd = Ancestor(k)
                    /\ ret[1].found[1].wt_tab =
                          (IF wt THEN Some(<<Ancestor(k), Ancestor(k - 1)>>) ELSE None)
           ELSE ret[1].found = None

\* a walk that passes a shell without a window and ends at a Windows Terminal
\* with one, two levels up
C30_Witness ==
    /\ arg # None /\ ret # None /\ "snapshot" \in DOMAIN arg[1]
    /\ Ancestor(1) \in DOMAIN arg[1].snapshot
    /\ name_lower(arg[1].snapshot[Ancestor(1)].name) = "cmd.exe"
    /\ ~ TerminalAt(1)
    /\ ret[1].found # None
    /\ ret[1].found[1].wt_tab = Some(<<Ancestor(2), Ancestor(1)>>)
    /\ ret[1].lookups = 2

(***************************************************************************)
(* Claims about the permission gate's countdown and decisions.             *)
(***************************************************************************)
\* the permission_countdown frames of one request, in the order broadcast
CountdownFrames(frames, id) ==
    SelectSeq(frames, LAMBDA f : f.type = "permission_countdown" /\ f.id = id)

\* C31 (as stated): the countdown task is aborted when the handler's wait
\* ends: no permission_countdown frame for a request id is broadcast after
\* api_permission_request for that id has returned.
C31_Original ==
    [][\A id \in ReqIds :
          perm[id].pc = "done" => CountdownFrames(sse', id) = CountdownFrames(sse, id)]_vars

\* the respond calls for a request that PermissionStore::respond accepted with
\* an approving decision
ApprovingResponds(id) ==
    {r \in RespIds : /\ resp[r].id = id
                     /\ resp[r].pc \in {"sent", "done"}
                     /\ resp[r].ok
                     /\ resp[r].decision \in {"Allow", "AlwaysAllow"}}

C33_Original ==
    /\ \A id \in ReqIds : Cardinality({r \in RespIds : resp[r].id = id /\ resp[r].ok}) <= 1
    /\ \A r \in RespIds :
          (resp[r].ok /\ resp[r].id \in ReqIds /\ perm[resp[r].id].pc = "done") =>
              /\ perm[resp[r].id].outcome = "decided"
              /\ perm[resp[r].id].decision = resp[r].decision

(***************************************************************************)
(* Further claims about reconciliation.                                    *)
(***************************************************************************)
\* the sessions get_active returned that have not ended
LiveTracked == {sid \in DOMAIN Tracked : Tracked[sid].status # "Ended"}

PostsOf(h) == SelectSeq(posts, LAMBDA p : p.h = h)

\* C35 (as stated): each hook invocation causes at most one POST to the core
\* server: a payload sent to the daemon is never also sent directly, not even
\* when the daemon is busy and the client's read times out.
C35_Original == \A h \in HookProcIds : Len(PostsOf(h)) <= 1

NoFlushInProgress == \A f \in FlushIds : fl[f] = "idle"

C37_CleanMeansSaved ==
    (~ dirty /\ NoFlushInProgress) =>
        IF mutations = 0 THEN snapfile = None /\ writes = 0
        ELSE snapfile = Some(sessions) /\ writes > 0

C37_Witness ==
    /\ ~ dirty
    /\ NoFlushInProgress
    /\ writes >= 2
    /\ mutations >= 2
    /\ sessions # << >>
    /\ snapfile = Some(sessions)

(***************************************************************************)
(* C38: whenever no EventStore operation is in progress (no append_event   *)
(* between its file write and its cache push, no refresh_cache between its *)
(* fs::metadata and its result), the cached event list equals the list in  *)
(* the JSONL file: same events, same order, same cleared flags.            *)
(***************************************************************************)
NoEventOp ==
    /\ \A c \in SigIds : sig[c].pc # "written"
    /\ \A g \in RdrIds : rdr[g].pc \notin {"meta", "stale", "read"}

C38_Original == NoEventOp => cache.events = file

(***************************************************************************)
(* C39: every key of the session tracker's map is a non-empty session id.  *)
(***************************************************************************)
C39_Original == "" \notin DOMAIN sessions

(***************************************************************************)
(* C40: the permission_request frame of a request is broadcast after both  *)
(* of register's inserts, and from then on the request is pending (in the  *)
(* pending list, with its sender) unless a decision has been or is being   *)
(* sent for it, or its long poll has timed out or returned.                *)
(***************************************************************************)
\* the permission_request frame of request id has been broadcast
Announced(id) ==
    \E i \in DOMAIN sse : sse[i].type = "permission_request" /\ sse[i].id = id

\* a respond call has sent a decision to the request's handler, or has taken
\* the request out of the pending list and is about to
Answered(id) ==
    \/ chan[id].st \in {"full", "taken", "lost"}
    \/ \E r \in RespIds : resp[r].id = id /\ resp[r].pc = "removed"

\* the long poll has timed out, or the handler has returned
PollOver(id) == perm[id].pc \in {"elapsed", "cleanup1", "cleanup2", "done"}

C40_Original ==
    \A id \in ReqIds :
        Announced(id) =>
            /\ perm[id].pc \notin {"start", "reg1", "reg2"}
            /\ (id \in DOMAIN requests /\ id \in senders) \/ Answered(id) \/ PollOver(id)

============================================================================
